---- MODULE Spec2Model ----
(***************************************************************************)
(* Yatra backend: the Express route handlers over the MySQL schema.        *)
(*                                                                         *)
(* State: the tables of database-setup.sql (db), the AUTO_INCREMENT        *)
(* counters (autoinc), and the last request handled with its response      *)
(* (req, resp).  One action per route handler; one step handles one        *)
(* request from start to finish.  Beside them: the clock (now) that NOW()  *)
(* and Date.now() read, the browser client's cache (client), and the       *)
(* check-in requests that are between their SELECT and their INSERT        *)
(* (inflight).                                                             *)
(*                                                                         *)
(* Value conventions: an id or number that is NULL, null, undefined or     *)
(* otherwise falsy in JavaScript is the integer 0 (ids are positive);      *)
(* a string that is missing or empty is "".  Where the code tests          *)
(* `x !== undefined`, the body carries the set `given` of the keys that    *)
(* are present.                                                            *)
(***************************************************************************)
EXTENDS Integers, Sequences, FiniteSets, TLC

VARIABLES db, autoinc, req, resp, now, client, inflight

vars == <<db, autoinc, req, resp, now, client, inflight>>

\* What a route handler that runs from start to finish leaves alone.
env == <<now, client, inflight>>

(***************************************************************************)
(* Bounds of the model.                                                    *)
(***************************************************************************)
\* Rows each table may gain through INSERT in one behaviour.
MaxVehicleInserts == 1

MaxTravelerInserts == 1

MaxPostInserts == 1

MaxCheckInInserts == 2

MaxAnnouncementInserts == 1

\* Connections that can have a POST /check-ins under way at the same time.
MaxConnections == 2

MaxJournalInserts == 2

\* The clock runs from 0 to MaxTime.
MaxTime == 2

\* The browser client's clock, in minutes, runs from 0 to MaxClientTime.
MaxClientTime == 5

(***************************************************************************)
(* Callers.  A JWT carries {id, email, isAdmin}; travelers' tokens are     *)
(* signed by POST /travelers/login with isAdmin false.                     *)
(***************************************************************************)
UserA == "a@x"
UserB == "b@x"
UserC == "c@x"
AdminEmail == "admin@x"

NoToken == [auth |-> FALSE, id |-> 0, email |-> "", isAdmin |-> FALSE]

TravelerToken(id, email) ==
    [auth |-> TRUE, id |-> id, email |-> email, isAdmin |-> FALSE]

TokenA == TravelerToken(1, UserA)
TokenB == TravelerToken(2, UserB)
TokenAdmin == [auth |-> TRUE, id |-> 1, email |-> AdminEmail, isAdmin |-> TRUE]

Callers == {NoToken, TokenA, TokenB, TokenAdmin}

\* middleware/auth.js: authenticateToken answers 401 unless the request
\* carries a valid JWT; requireAdmin answers 403 unless the token is admin.
authenticateToken(user) == user.auth

requireAdmin(user) == user.isAdmin

(***************************************************************************)
(* Requests and responses.                                                 *)
(***************************************************************************)
Req(method, route, user, id) ==
    [method |-> method, route |-> route, user |-> user, id |-> id,
     legacy |-> FALSE, arg |-> [given |-> {}]]

ReqArg(method, route, user, id, arg) ==
    [Req(method, route, user, id) EXCEPT !.arg = arg]

Res(status, msg) ==
    [status |-> status, msg |-> msg, id |-> 0, travelers |-> {},
     vehicles |-> {}, posts |-> <<>>, checkIns |-> {}, token |-> NoToken,
     announcements |-> {}, journals |-> <<>>, flags |-> {}]

Unauthorized == Res(401, "Access token required")

AdminRequired == Res(403, "Admin access required")

\* The handler answers r and leaves every table as it was.
Refuse(q, r) ==
    /\ req' = q /\ UNCHANGED env
    /\ resp' = r
    /\ UNCHANGED <<db, autoinc>>

\* The handler answers r after replacing table t by rows.
Store(q, r, t, rows) ==
    /\ req' = q /\ UNCHANGED env
    /\ resp' = r
    /\ db' = [db EXCEPT ![t] = rows]

RowById(rows, id) == {r \in rows : r.id = id}

(***************************************************************************)
(* Initial database: the schema of database-setup.sql with two registered  *)
(* travelers (who hold TokenA and TokenB) and one vehicle.                  *)
(***************************************************************************)
Traveler(id, email, hash, vehicleId, aboutMe) ==
    [id |-> id, email |-> email, password_hash |-> hash,
     vehicle_id |-> vehicleId, about_me |-> aboutMe]

Vehicle(id, name, capacity, regNo, leader) ==
    [id |-> id, name |-> name, capacity |-> capacity, reg_no |-> regNo,
     group_leader_email |-> leader, current_lat |-> 0, current_lng |-> 0,
     last_update |-> FALSE]

InitTravelers ==
    {Traveler(1, UserA, "hash:pwA", 1, "about A"),
     Traveler(2, UserB, "hash:pwB", 0, "about B")}

InitVehicles ==
    {Vehicle(1, "Bus 1", 40, "REG1", UserA)}

\* The default post sections database-setup.sql inserts.
InitSections ==
    {[id |-> 1, name |-> "Temples & Sacred Sites"],
     [id |-> 2, name |-> "Spiritual Experiences"],
     [id |-> 3, name |-> "Food & Prasad"],
     [id |-> 4, name |-> "Travel Updates"]}

InitDb ==
    [travelers |-> InitTravelers,
     vehicles |-> InitVehicles,
     post_sections |-> InitSections,
     posts |-> {},
     post_media |-> {},
     post_tags |-> {},
     check_ins |-> {},
     announcements |-> {},
     vehicle_allotments |-> {},
     journal_table |-> FALSE,
     journal_entries |-> {},
     settings |-> {[setting_key |-> "yatra_title", setting_value |-> "A",
                    setting_type |-> "string"]}]

InitAutoinc ==
    [travelers |-> 3, vehicles |-> 2, posts |-> 1, check_ins |-> 1,
     announcements |-> 1, journal_entries |-> 1, post_sections |-> 5]

\* The browser client starts with API_CACHE = {} and API_CACHE_TIMESTAMP = {}
\* (cache), nothing in localStorage under the settings key (storage), and no
\* call made yet (call: the last call of api.fetch, safeGetFromStorage or
\* safeSetToStorage and how it ended; seq tells one call from the next).
InitClient ==
    [cache |-> {}, storage |-> {},
     call |-> [op |-> "", method |-> "", fetched |-> FALSE, outcome |-> "",
               data |-> {}, value |-> {}, seq |-> 0]]

Init ==
    /\ db = InitDb
    /\ autoinc = InitAutoinc
    /\ req = Req("", "", NoToken, 0)
    /\ resp = Res(0, "")
    /\ now = 0
    /\ client = InitClient
    /\ inflight = {}

(***************************************************************************)
(* Vehicles: routes/vehicles.js (every write behind authenticateToken and  *)
(* requireAdmin) and the second vehicles router, whose handlers are        *)
(* registered with no middleware at all.                                   *)
(***************************************************************************)
\* A JSON capacity: absent (undefined or null), a number, or a string that
\* Number() turns into NaN.
CapMissing == [k |-> "missing", n |-> 0]

CapNum(n) == [k |-> "num", n |-> n]

CapNaN == [k |-> "nan", n |-> 0]

\* Number.isFinite(Number(capacity))
IsFiniteNumber(c) == c.k = "num"

\* JavaScript truthiness of a capacity: 0, undefined and null are falsy.
Truthy(c) == c.k = "nan" \/ (c.k = "num" /\ c.n # 0)

VehicleBody(name, type, capacity, regNo, leader) ==
    [name |-> name, type |-> type, capacity |-> capacity, regNo |-> regNo,
     groupLeaderEmail |-> leader, given |-> {}, currentLat |-> 0,
     currentLng |-> 0]

GoodVehicleBody == VehicleBody("Bus 2", "Bus", CapNum(20), "REG2", UserB)

VehiclePostBodies ==
    {GoodVehicleBody,
     [GoodVehicleBody EXCEPT !.name = ""],
     [GoodVehicleBody EXCEPT !.capacity = CapMissing],
     [GoodVehicleBody EXCEPT !.capacity = CapNum(0)],
     [GoodVehicleBody EXCEPT !.capacity = CapNum(-1)],
     [GoodVehicleBody EXCEPT !.capacity = CapNaN],
     [GoodVehicleBody EXCEPT !.regNo = ""],
     [GoodVehicleBody EXCEPT !.regNo = "REG1"]}

EmptyVehicleBody == VehicleBody("", "", CapMissing, "", "")

VehiclePutBodies ==
    {EmptyVehicleBody,
     [EmptyVehicleBody EXCEPT !.groupLeaderEmail = UserB],
     [EmptyVehicleBody EXCEPT !.capacity = CapNum(-1)],
     [EmptyVehicleBody EXCEPT !.capacity = CapNum(0)],
     [EmptyVehicleBody EXCEPT !.regNo = "REG1"],
     [EmptyVehicleBody EXCEPT !.given = {"currentLat", "currentLng"},
                              !.currentLat = 5, !.currentLng = 6]}

\* reg_no VARCHAR(50) UNIQUE: NULL (here "") may repeat.
RegNoTaken(rows, regNo, exceptId) ==
    regNo # "" /\ \E v \in rows : v.id # exceptId /\ v.reg_no = regNo

\* The ids a request may name: those a row can have, and one no row has.
VehicleIds == 1 .. (InitAutoinc.vehicles + MaxVehicleInserts)

\* POST /vehicles: the validation of the authenticated router.
VehiclePostInvalid(body) ==
    IF body.name = "" \/ body.type = "" \/ body.capacity.k = "missing"
    THEN "Missing required fields: name, type, capacity"
    ELSE IF ~IsFiniteNumber(body.capacity) \/ body.capacity.n <= 0
    THEN "Capacity must be a positive number"
    ELSE ""

InsertVehicle(q, body, capacity) ==
    IF RegNoTaken(db.vehicles, body.regNo, 0)
    THEN Refuse(q, Res(500, "Failed to create vehicle"))
    ELSE /\ Store(q, [Res(201, "Vehicle created successfully")
                        EXCEPT !.id = autoinc.vehicles],
                  "vehicles",
                  db.vehicles \cup
                    {Vehicle(autoinc.vehicles, body.name, capacity,
                             body.regNo, body.groupLeaderEmail)})
         /\ autoinc' = [autoinc EXCEPT !.vehicles = @ + 1]

VehiclePost(user, body) ==
    LET q == Req("POST", "/vehicles", user, 0) IN
    /\ autoinc.vehicles <= InitAutoinc.vehicles + MaxVehicleInserts - 1
    /\ IF ~authenticateToken(user) THEN Refuse(q, Unauthorized)
       ELSE IF ~requireAdmin(user) THEN Refuse(q, AdminRequired)
       ELSE IF VehiclePostInvalid(body) # ""
       THEN Refuse(q, Res(400, VehiclePostInvalid(body)))
       ELSE InsertVehicle(q, body, body.capacity.n)

\* The SET list the PUT handler builds, applied to the row v.
VehicleUpdated(v, body) ==
    [v EXCEPT
       !.name = IF body.name # "" THEN body.name ELSE @,
       !.capacity = IF Truthy(body.capacity) THEN body.capacity.n ELSE @,
       !.reg_no = IF body.regNo # "" THEN body.regNo ELSE @,
       !.group_leader_email =
           IF body.groupLeaderEmail # "" THEN body.groupLeaderEmail ELSE @,
       !.current_lat = IF "currentLat" \in body.given THEN body.currentLat ELSE @,
       !.current_lng = IF "currentLng" \in body.given THEN body.currentLng ELSE @,
       !.last_update =
           IF body.given \cap {"currentLat", "currentLng"} # {} THEN TRUE ELSE @]

VehicleNoFields(body) ==
    /\ body.name = ""
    /\ ~Truthy(body.capacity)
    /\ body.regNo = ""
    /\ body.groupLeaderEmail = ""
    /\ body.given = {}

UpdateVehicle(q, id, body) ==
    IF VehicleNoFields(body)
    THEN Refuse(q, Res(400, "No fields to update"))
    ELSE IF body.regNo # "" /\ RowById(db.vehicles, id) # {}
            /\ RegNoTaken(db.vehicles, body.regNo, id)
    THEN Refuse(q, Res(500, "Failed to update vehicle"))
    ELSE /\ Store(q, Res(200, "Vehicle updated successfully"), "vehicles",
                  {IF v.id = id THEN VehicleUpdated(v, body) ELSE v :
                     v \in db.vehicles})
         /\ UNCHANGED autoinc

VehiclePut(user, id, body) ==
    LET q == Req("PUT", "/vehicles/:id", user, id) IN
    IF ~authenticateToken(user) THEN Refuse(q, Unauthorized)
    ELSE IF ~requireAdmin(user) THEN Refuse(q, AdminRequired)
    ELSE UpdateVehicle(q, id, body)

\* DELETE FROM vehicles; check_ins.vehicle_id is ON DELETE CASCADE, while
\* travelers.vehicle_id carries no foreign key.
DeleteVehicle(q, id) ==
    /\ req' = q /\ UNCHANGED env
    /\ resp' = Res(200, "Vehicle deleted successfully")
    /\ db' = [db EXCEPT
                !.vehicles = {v \in @ : v.id # id},
                !.check_ins = {c \in @ : c.vehicle_id # id}]
    /\ UNCHANGED autoinc

VehicleDelete(user, id) ==
    LET q == Req("DELETE", "/vehicles/:id", user, id) IN
    IF ~authenticateToken(user) THEN Refuse(q, Unauthorized)
    ELSE IF ~requireAdmin(user) THEN Refuse(q, AdminRequired)
    ELSE DeleteVehicle(q, id)

\* Only admin or the vehicle's group leader may update the location.
MayUpdateLocation(user, vehicle) ==
    user.isAdmin \/ vehicle.group_leader_email = user.email

SetLocation(q, id, lat, lng) ==
    /\ Store(q, Res(200, "Vehicle location updated successfully"), "vehicles",
             {IF v.id = id
              THEN [v EXCEPT !.current_lat = lat, !.current_lng = lng,
                             !.last_update = TRUE]
              ELSE v : v \in db.vehicles})
    /\ UNCHANGED autoinc

VehicleLocation(user, id, lat, lng) ==
    LET q == Req("POST", "/vehicles/:id/location", user, id) IN
    IF ~authenticateToken(user) THEN Refuse(q, Unauthorized)
    ELSE IF RowById(db.vehicles, id) = {}
    THEN Refuse(q, Res(404, "Vehicle not found"))
    ELSE IF \E v \in RowById(db.vehicles, id) : ~MayUpdateLocation(user, v)
    THEN Refuse(q, Res(403, "Access denied"))
    ELSE SetLocation(q, id, lat, lng)

(***************************************************************************)
(* The vehicles router without middleware: req.user is never set, and the  *)
(* handlers run for every caller.                                          *)
(***************************************************************************)
Legacy(q) == [q EXCEPT !.legacy = TRUE]

LegacyVehiclePost(user, body) ==
    LET q == Legacy(Req("POST", "/vehicles", user, 0)) IN
    /\ autoinc.vehicles <= InitAutoinc.vehicles + MaxVehicleInserts - 1
    /\ IF body.name = "" \/ body.type = "" \/ ~Truthy(body.capacity)
          \/ body.regNo = ""
       THEN Refuse(q, Res(400, "Missing required fields: name, type, capacity, regNo"))
       ELSE IF ~IsFiniteNumber(body.capacity)
       THEN \* safeCapacity is null and capacity is NOT NULL
            Refuse(q, Res(500, "Failed to create vehicle"))
       ELSE InsertVehicle(q, body, body.capacity.n)

LegacyVehiclePut(user, id, body) ==
    UpdateVehicle(Legacy(Req("PUT", "/vehicles/:id", user, id)), id, body)

LegacyVehicleDelete(user, id) ==
    DeleteVehicle(Legacy(Req("DELETE", "/vehicles/:id", user, id)), id)

LegacyVehicleLocation(user, id, lat, lng) ==
    SetLocation(Legacy(Req("POST", "/vehicles/:id/location", user, id)),
                id, lat, lng)

\* GET /vehicles: every row, for any authenticated caller.
VehicleGetAll(user) ==
    LET q == Req("GET", "/vehicles", user, 0) IN
    IF ~authenticateToken(user) THEN Refuse(q, Unauthorized)
    ELSE Refuse(q, [Res(200, "") EXCEPT !.vehicles = db.vehicles])

\* The callers of the router without middleware: it reads no token, so one
\* caller without and one with a token stand for all.
LegacyCallers == {NoToken, TokenA}

NextVehicles ==
    \/ \E u \in Callers : VehicleGetAll(u)
    \/ \E u \in Callers, b \in VehiclePostBodies : VehiclePost(u, b)
    \/ \E u \in Callers, id \in VehicleIds, b \in VehiclePutBodies :
         VehiclePut(u, id, b)
    \/ \E u \in Callers, id \in VehicleIds : VehicleDelete(u, id)
    \/ \E u \in Callers, id \in VehicleIds : VehicleLocation(u, id, 5, 6)
    \/ \E u \in LegacyCallers, b \in VehiclePostBodies : LegacyVehiclePost(u, b)
    \/ \E u \in LegacyCallers, id \in VehicleIds, b \in VehiclePutBodies :
         LegacyVehiclePut(u, id, b)
    \/ \E u \in LegacyCallers, id \in VehicleIds : LegacyVehicleDelete(u, id)
    \/ \E u \in LegacyCallers, id \in VehicleIds :
         LegacyVehicleLocation(u, id, 5, 6)

SpecVehicles == Init /\ [][NextVehicles]_vars

(***************************************************************************)
(* Travelers: routes/travelers.js.  Of the profile columns the model keeps *)
(* email (UNIQUE), password_hash, vehicle_id and about_me.                 *)
(***************************************************************************)
\* bcrypt.hash, as a function of the password alone.
BcryptHash(password) == IF password = "" THEN "" ELSE "hash:" \o password

\* formatTravelerData: the row as GET /travelers and /travelers/public send it.
formatTravelerData(t) ==
    [id |-> t.id, email |-> t.email, vehicleId |-> t.vehicle_id,
     aboutMe |-> t.about_me]

\* The row sent as it was selected.
WithoutPasswordHash_Whole(t) == t

\* const { password_hash, ...travelerData } = traveler
WithoutPasswordHash(t) ==
    [id |-> t.id, email |-> t.email, vehicle_id |-> t.vehicle_id,
     about_me |-> t.about_me]

\* The columns GET /travelers/email/:email selects.
TravelerByEmailView(t) ==
    [id |-> t.id, email |-> t.email, vehicleId |-> t.vehicle_id]

TravelerIds == 1 .. (InitAutoinc.travelers + MaxTravelerInserts)

TravelerEmails == {UserA, UserB, UserC}

TravelerGetPublic(user) ==
    LET q == Req("GET", "/travelers/public", user, 0) IN
    IF ~authenticateToken(user) THEN Refuse(q, Unauthorized)
    ELSE Refuse(q, [Res(200, "") EXCEPT
                      !.travelers = {formatTravelerData(t) : t \in db.travelers}])

TravelerGetAll(user) ==
    LET q == Req("GET", "/travelers", user, 0) IN
    IF ~authenticateToken(user) THEN Refuse(q, Unauthorized)
    ELSE IF ~requireAdmin(user) THEN Refuse(q, AdminRequired)
    ELSE Refuse(q, [Res(200, "") EXCEPT
                      !.travelers = {formatTravelerData(t) : t \in db.travelers}])

\* Allow access if admin or if accessing own profile.
OwnProfile(user, travelerId) == user.isAdmin \/ user.id = travelerId

TravelerGetById(user, id) ==
    LET q == Req("GET", "/travelers/:id", user, id) IN
    IF ~authenticateToken(user) THEN Refuse(q, Unauthorized)
    ELSE IF ~OwnProfile(user, id) THEN Refuse(q, Res(403, "Access denied"))
    ELSE IF RowById(db.travelers, id) = {}
    THEN Refuse(q, Res(404, "Traveler not found"))
    ELSE Refuse(q, [Res(200, "") EXCEPT
                      !.travelers = {WithoutPasswordHash(t) :
                                       t \in RowById(db.travelers, id)}])

\* Users can only access their own data unless they're admin.
OwnEmail(user, email) == user.isAdmin \/ user.email = email

TravelerGetByEmail(user, email) ==
    LET q == ReqArg("GET", "/travelers/email/:email", user, 0,
                    [given |-> {}, email |-> email])
        found == {t \in db.travelers : t.email = email}
    IN
    IF ~authenticateToken(user) THEN Refuse(q, Unauthorized)
    ELSE IF ~OwnEmail(user, email) THEN Refuse(q, Res(403, "Access denied"))
    ELSE IF found = {} THEN Refuse(q, Res(404, "Traveler not found"))
    ELSE Refuse(q, [Res(200, "") EXCEPT
                      !.travelers = {TravelerByEmailView(t) : t \in found}])

EmailTaken(rows, email, exceptId) ==
    \E t \in rows : t.id # exceptId /\ t.email = email

TravelerPostBodies ==
    {[email |-> UserC, password |-> "pwC", vehicleId |-> 1],
     [email |-> UserA, password |-> "", vehicleId |-> 0]}

TravelerPost(user, body) ==
    LET q == Req("POST", "/travelers", user, 0) IN
    /\ autoinc.travelers <= InitAutoinc.travelers + MaxTravelerInserts - 1
    /\ IF ~authenticateToken(user) THEN Refuse(q, Unauthorized)
       ELSE IF ~requireAdmin(user) THEN Refuse(q, AdminRequired)
       ELSE IF EmailTaken(db.travelers, body.email, 0)
       THEN Refuse(q, Res(400, "Email or Tirth ID already exists"))
       ELSE /\ Store(q, [Res(201, "Traveler created successfully")
                           EXCEPT !.id = autoinc.travelers],
                     "travelers",
                     db.travelers \cup
                       {Traveler(autoinc.travelers, body.email,
                                 BcryptHash(body.password), body.vehicleId, "")})
            /\ autoinc' = [autoinc EXCEPT !.travelers = @ + 1]

EmptyTravelerBody ==
    [email |-> "", password |-> "", aboutMe |-> "", vehicleId |-> 0,
     given |-> {}]

TravelerPutBodies ==
    {EmptyTravelerBody,
     [EmptyTravelerBody EXCEPT !.aboutMe = "new bio"],
     [EmptyTravelerBody EXCEPT !.email = UserC, !.password = "pwC"],
     [EmptyTravelerBody EXCEPT !.given = {"vehicleId"}]}

\* The SET list the PUT handler builds, applied to the row t.
TravelerUpdated(t, body) ==
    [t EXCEPT
       !.email = IF body.email # "" THEN body.email ELSE @,
       !.password_hash =
           IF body.password # "" THEN BcryptHash(body.password) ELSE @,
       !.vehicle_id = IF "vehicleId" \in body.given THEN body.vehicleId ELSE @,
       !.about_me = IF body.aboutMe # "" THEN body.aboutMe ELSE @]

TravelerNoFields(body) ==
    /\ body.email = ""
    /\ body.password = ""
    /\ body.aboutMe = ""
    /\ body.given = {}

TravelerPut(user, id, body) ==
    LET q == Req("PUT", "/travelers/:id", user, id) IN
    IF ~authenticateToken(user) THEN Refuse(q, Unauthorized)
    ELSE IF ~OwnProfile(user, id) THEN Refuse(q, Res(403, "Access denied"))
    ELSE IF TravelerNoFields(body)
    THEN Refuse(q, Res(400, "No fields to update"))
    ELSE IF body.email # "" /\ RowById(db.travelers, id) # {}
            /\ EmailTaken(db.travelers, body.email, id)
    THEN Refuse(q, Res(500, "Failed to update traveler"))
    ELSE /\ Store(q, Res(200, "Traveler updated successfully"), "travelers",
                  {IF t.id = id THEN TravelerUpdated(t, body) ELSE t :
                     t \in db.travelers})
         /\ UNCHANGED autoinc

\* DELETE FROM travelers; check_ins.traveler_id is ON DELETE SET NULL.
TravelerDelete(user, id) ==
    LET q == Req("DELETE", "/travelers/:id", user, id) IN
    IF ~authenticateToken(user) THEN Refuse(q, Unauthorized)
    ELSE IF ~requireAdmin(user) THEN Refuse(q, AdminRequired)
    ELSE /\ req' = q /\ UNCHANGED env
         /\ resp' = Res(200, "Traveler deleted successfully")
         /\ db' = [db EXCEPT
                     !.travelers = {t \in @ : t.id # id},
                     !.check_ins =
                         {IF c.traveler_id = id
                          THEN [c EXCEPT !.traveler_id = 0] ELSE c : c \in @}]
         /\ UNCHANGED autoinc

\* POST /travelers/login: public; signs {id, email, isAdmin: false}.
TravelerLogin(user, email, password) ==
    LET q == ReqArg("POST", "/travelers/login", user, 0,
                    [given |-> {}, email |-> email])
        found == {t \in db.travelers : t.email = email}
    IN
    IF email = "" \/ password = ""
    THEN Refuse(q, Res(400, "Email and password required"))
    ELSE IF found = {} \/ \E t \in found : t.password_hash # BcryptHash(password)
    THEN Refuse(q, Res(401, "Invalid email or password"))
    ELSE Refuse(q, [Res(200, "") EXCEPT
                      !.travelers = {WithoutPasswordHash(t) : t \in found},
                      !.token = CHOOSE k \in {TravelerToken(t.id, t.email) :
                                                t \in found} : TRUE])

NextTravelers ==
    \/ \E u \in Callers : TravelerGetPublic(u)
    \/ \E u \in Callers : TravelerGetAll(u)
    \/ \E u \in Callers, id \in TravelerIds : TravelerGetById(u, id)
    \/ \E u \in Callers, e \in TravelerEmails : TravelerGetByEmail(u, e)
    \/ \E u \in Callers, b \in TravelerPostBodies : TravelerPost(u, b)
    \/ \E u \in Callers, id \in TravelerIds, b \in TravelerPutBodies :
         TravelerPut(u, id, b)
    \/ \E u \in Callers, id \in TravelerIds : TravelerDelete(u, id)
    \/ \E u \in {NoToken}, e \in {"", UserA, UserC}, p \in {"", "pwA", "pwC"} :
         TravelerLogin(u, e, p)

SpecTravelers == Init /\ [][NextTravelers]_vars

\* Travelers assigned to vehicles that come and go: vehicleId names no
\* vehicle (0), a vehicle, or an id no vehicle has (9).
NextTravelerVehicles ==
    \/ \E v \in {0, 1, 9} :
         TravelerPost(TokenAdmin, [email |-> UserC, password |-> "pwC",
                                   vehicleId |-> v])
    \/ \E u \in {TokenB, TokenAdmin}, id \in TravelerIds, v \in {0, 1, 2, 9} :
         TravelerPut(u, id, [EmptyTravelerBody EXCEPT !.given = {"vehicleId"},
                                                      !.vehicleId = v])
    \/ \E id \in TravelerIds : TravelerDelete(TokenAdmin, id)
    \/ VehiclePost(TokenAdmin, GoodVehicleBody)
    \/ \E id \in VehicleIds : VehicleDelete(TokenAdmin, id)

SpecTravelerVehicles == Init /\ [][NextTravelerVehicles]_vars

(***************************************************************************)
(* Posts: routes/posts.js over posts, post_media and post_tags.  A post    *)
(* row keeps author_email, approved and section_id; created_at grows with  *)
(* the id, so ORDER BY created_at DESC is the ids in descending order.     *)
(***************************************************************************)
RECURSIVE DescById(_)
\* The rows of a set as a sequence, greatest id first.
DescById(rows) ==
    IF rows = {} THEN <<>>
    ELSE LET top == CHOOSE r \in rows : \A o \in rows : o.id <= r.id
         IN <<top>> \o DescById(rows \ {top})

RECURSIVE ByDisplayOrder(_)
\* ORDER BY display_order
ByDisplayOrder(rows) ==
    IF rows = {} THEN <<>>
    ELSE LET first == CHOOSE r \in rows :
                        \A o \in rows : r.display_order <= o.display_order
         IN <<first.media_url>> \o ByDisplayOrder(rows \ {first})

MediaOf(postId) ==
    ByDisplayOrder({m \in db.post_media : m.post_id = postId})

TagsOf(postId) == {t.tag_name : t \in {x \in db.post_tags : x.post_id = postId}}

\* The JSON shape both GET handlers send for a row.
PostView(p) ==
    [id |-> p.id, email |-> p.author_email, section |-> p.section_id,
     approved |-> p.approved, media |-> MediaOf(p.id), tags |-> TagsOf(p.id)]

\* LIMIT n OFFSET k
LimitOffset(seq, limit, offset) ==
    SubSeq(seq, offset + 1,
           IF offset + limit < Len(seq) THEN offset + limit ELSE Len(seq))

\* The approval filter with the admin test dropped.
ApprovalFilter_Ungated(user, approved, p) ==
    IF approved # "undefined" THEN p.approved = (approved = "true")
    ELSE TRUE

\* If not admin, only show approved posts; an admin may filter by approval.
ApprovalFilter(user, approved, p) ==
    IF ~user.isAdmin THEN p.approved
    ELSE IF approved # "undefined" THEN p.approved = (approved = "true")
    ELSE TRUE

\* The WHERE clause GET /posts builds.
PostMatches(user, query, p) ==
    /\ ApprovalFilter(user, query.approved, p)
    /\ query.section # 0 => p.section_id = query.section
    /\ query.author # "" => p.author_email = query.author

PostQuery(approved, section, author, limit, offset) ==
    [approved |-> approved, section |-> section, author |-> author,
     limit |-> limit, offset |-> offset, given |-> {}]

NoPostQuery == PostQuery("undefined", 0, "", "", "")

\* limit and offset arrive as strings: "" is absent, "0" is truthy.
ParseInt(str) == IF str = "1" THEN 1 ELSE 0

PostQueries ==
    {NoPostQuery,
     [NoPostQuery EXCEPT !.approved = "true"],
     [NoPostQuery EXCEPT !.approved = "false"],
     [NoPostQuery EXCEPT !.section = 1],
     [NoPostQuery EXCEPT !.author = UserA],
     [NoPostQuery EXCEPT !.limit = "1"],
     [NoPostQuery EXCEPT !.limit = "1", !.offset = "1"],
     [NoPostQuery EXCEPT !.offset = "1"]}

PostList(user, query) ==
    LET all == DescById({p \in db.posts : PostMatches(user, query, p)})
        rows == IF query.limit = "" THEN all
                ELSE LimitOffset(all, ParseInt(query.limit),
                                 IF query.offset = "" THEN 0
                                 ELSE ParseInt(query.offset))
    IN [i \in 1 .. Len(rows) |-> PostView(rows[i])]

PostGetAll(user, query) ==
    LET q == ReqArg("GET", "/posts", user, 0, query) IN
    IF ~authenticateToken(user) THEN Refuse(q, Unauthorized)
    ELSE Refuse(q, [Res(200, "") EXCEPT !.posts = PostList(user, query)])

\* If not authenticated or not admin, only show approved posts.
PostVisible(user, p) == user.isAdmin \/ p.approved

PostGetById(user, id) ==
    LET q == Req("GET", "/posts/:id", user, id) IN
    IF ~authenticateToken(user) THEN Refuse(q, Unauthorized)
    ELSE IF RowById(db.posts, id) = {}
    THEN Refuse(q, Res(404, "Post not found"))
    ELSE IF \E p \in RowById(db.posts, id) : ~PostVisible(user, p)
    THEN Refuse(q, Res(403, "Post not available"))
    ELSE Refuse(q, [Res(200, "") EXCEPT
                      !.posts = DescById({PostView(p) :
                                            p \in RowById(db.posts, id)})])

PostBody(authorEmail, email, approved, section, media, tags) ==
    [authorEmail |-> authorEmail, email |-> email, approved |-> approved,
     section |-> section, media |-> media, tags |-> tags, given |-> {}]

EmptyPostBody == PostBody("", "", "undefined", 0, <<>>, {})

PostPostBodies ==
    {EmptyPostBody,
     [EmptyPostBody EXCEPT !.authorEmail = UserA],
     [EmptyPostBody EXCEPT !.authorEmail = UserB, !.approved = "true",
                           !.section = 1, !.media = <<"http://m1">>,
                           !.tags = {"t1"}],
     [EmptyPostBody EXCEPT !.email = UserA, !.approved = "true"],
     [EmptyPostBody EXCEPT !.authorEmail = UserA, !.section = 9],
     [EmptyPostBody EXCEPT !.authorEmail = UserB, !.approved = "false"]}

\* const postAuthorEmail = authorEmail || email || req.user.email
postAuthorEmail(user, body) ==
    IF body.authorEmail # "" THEN body.authorEmail
    ELSE IF body.email # "" THEN body.email
    ELSE user.email

\* const finalAuthorEmail = authorEmail || email || ''
finalAuthorEmail(user, body) ==
    IF body.authorEmail # "" THEN body.authorEmail
    ELSE IF body.email # "" THEN body.email
    ELSE ""

\* approved !== undefined ? (approved === true || approved === 'true') : false
finalApproved(user, body) == body.approved = "true"

\* FOREIGN KEY (section_id) REFERENCES post_sections(id)
SectionExists(section) ==
    section = 0 \/ \E x \in db.post_sections : x.id = section

MediaRows(postId, media) ==
    {[post_id |-> postId, media_url |-> media[i], display_order |-> i - 1] :
       i \in 1 .. Len(media)}

TagRows(postId, tags) == {[post_id |-> postId, tag_name |-> t] : t \in tags}

PostPost(user, body) ==
    LET q == ReqArg("POST", "/posts", user, 0,
                    [given |-> {}, authorEmail |-> body.authorEmail,
                     email |-> body.email])
        id == autoinc.posts
    IN
    /\ autoinc.posts <= InitAutoinc.posts + MaxPostInserts - 1
    /\ IF ~authenticateToken(user) THEN Refuse(q, Unauthorized)
       ELSE IF ~user.isAdmin /\ postAuthorEmail(user, body) # user.email
       THEN Refuse(q, Res(403, "Access denied"))
       ELSE IF ~SectionExists(body.section)
       THEN Refuse(q, Res(500, "Failed to create post"))
       ELSE /\ req' = q /\ UNCHANGED env
            /\ resp' = [Res(201, "Post created successfully") EXCEPT !.id = id]
            /\ db' = [db EXCEPT
                        !.posts = @ \cup
                            {[id |-> id,
                              author_email |-> finalAuthorEmail(user, body),
                              approved |-> finalApproved(user, body),
                              section_id |-> body.section]},
                        !.post_media = @ \cup MediaRows(id, body.media),
                        !.post_tags = @ \cup TagRows(id, body.tags)]
            /\ autoinc' = [autoinc EXCEPT !.posts = @ + 1]

\* The ownership test dropped.
OwnsPost_Anyone(user, post) == TRUE

\* Users can update or delete own posts, admins any.
OwnsPost(user, post) == user.isAdmin \/ post.author_email = user.email

\* parseInt(req.params.id) must be finite and positive.
ValidId(id) == id > 0

PostPutBodies ==
    {EmptyPostBody,
     [EmptyPostBody EXCEPT !.given = {"section", "media", "tags"},
                           !.section = 1, !.media = <<"http://m1">>,
                           !.tags = {"t1"}],
     [EmptyPostBody EXCEPT !.given = {"section", "media", "tags"}],
     [EmptyPostBody EXCEPT !.given = {"approved"}, !.approved = "true"],
     [EmptyPostBody EXCEPT !.given = {"approved"}, !.approved = "false"],
     [EmptyPostBody EXCEPT !.given = {"section"}, !.section = 9]}

\* The SET list the PUT handler builds; only admins can change approval.
PostUpdated(user, p, body) ==
    [p EXCEPT
       !.section_id = IF "section" \in body.given THEN body.section ELSE @,
       !.approved = IF "approved" \in body.given /\ user.isAdmin
                    THEN body.approved = "true" ELSE @]

PostPut(user, id, body) ==
    LET q == Req("PUT", "/posts/:id", user, id) IN
    IF ~authenticateToken(user) THEN Refuse(q, Unauthorized)
    ELSE IF ~ValidId(id) THEN Refuse(q, Res(400, "Invalid post ID"))
    ELSE IF RowById(db.posts, id) = {}
    THEN Refuse(q, Res(404, "Post not found"))
    ELSE IF \E p \in RowById(db.posts, id) : ~OwnsPost(user, p)
    THEN Refuse(q, Res(403, "Access denied"))
    ELSE IF "section" \in body.given /\ ~SectionExists(body.section)
    THEN Refuse(q, Res(500, "Failed to update post"))
    ELSE /\ req' = q /\ UNCHANGED env
         /\ resp' = Res(200, "Post updated successfully")
         /\ db' = [db EXCEPT
                     !.posts = {IF p.id = id THEN PostUpdated(user, p, body)
                                ELSE p : p \in @},
                     !.post_media =
                         IF "media" \in body.given
                         THEN {m \in @ : m.post_id # id}
                                \cup MediaRows(id, body.media)
                         ELSE @,
                     !.post_tags =
                         IF "tags" \in body.given
                         THEN {t \in @ : t.post_id # id}
                                \cup TagRows(id, body.tags)
                         ELSE @]
         /\ UNCHANGED autoinc

\* DELETE FROM posts; post_media and post_tags are ON DELETE CASCADE.
PostDelete(user, id) ==
    LET q == Req("DELETE", "/posts/:id", user, id) IN
    IF ~authenticateToken(user) THEN Refuse(q, Unauthorized)
    ELSE IF ~ValidId(id) THEN Refuse(q, Res(400, "Invalid post ID"))
    ELSE IF RowById(db.posts, id) = {}
    THEN Refuse(q, Res(404, "Post not found"))
    ELSE IF \E p \in RowById(db.posts, id) : ~OwnsPost(user, p)
    THEN Refuse(q, Res(403, "Access denied"))
    ELSE /\ req' = q /\ UNCHANGED env
         /\ resp' = Res(200, "Post deleted successfully")
         /\ db' = [db EXCEPT
                     !.posts = {p \in @ : p.id # id},
                     !.post_media = {m \in @ : m.post_id # id},
                     !.post_tags = {t \in @ : t.post_id # id}]
         /\ UNCHANGED autoinc

\* PATCH /posts/:id/approve; approved is true for true, 'true' and 1.
PostApprove(user, id, approved) ==
    LET q == Req("PATCH", "/posts/:id/approve", user, id) IN
    IF ~authenticateToken(user) THEN Refuse(q, Unauthorized)
    ELSE IF ~requireAdmin(user) THEN Refuse(q, AdminRequired)
    ELSE IF ~ValidId(id) THEN Refuse(q, Res(400, "Invalid post ID"))
    ELSE IF RowById(db.posts, id) = {}
    THEN Refuse(q, Res(404, "Post not found after update"))
    ELSE /\ Store(q, [Res(200, "Post approval updated") EXCEPT
                        !.posts = DescById({[PostView(p) EXCEPT
                                               !.approved = approved] :
                                             p \in RowById(db.posts, id)})],
                  "posts",
                  {IF p.id = id THEN [p EXCEPT !.approved = approved] ELSE p :
                     p \in db.posts})
         /\ UNCHANGED autoinc

\* The ids a request may name: 0 (not a valid id), those a post can have,
\* and one no post has.
PostIds == 0 .. (InitAutoinc.posts + MaxPostInserts)

NextPosts ==
    \/ \E u \in Callers, query \in PostQueries : PostGetAll(u, query)
    \/ \E u \in Callers, id \in PostIds : PostGetById(u, id)
    \/ \E u \in Callers, b \in PostPostBodies : PostPost(u, b)
    \/ \E u \in Callers, id \in PostIds, b \in PostPutBodies : PostPut(u, id, b)
    \/ \E u \in Callers, id \in PostIds : PostDelete(u, id)
    \/ \E u \in Callers, id \in PostIds, a \in BOOLEAN : PostApprove(u, id, a)

SpecPosts == Init /\ [][NextPosts]_vars

(***************************************************************************)
(* Check-ins: routes/checkIns.js over check_ins.  checked_out_at is kept   *)
(* as "has been set"; checked_in_at grows with the id.                     *)
(***************************************************************************)
CheckInBody(vehicleId, travelerEmail, travelerId) ==
    [vehicleId |-> vehicleId, travelerEmail |-> travelerEmail,
     travelerId |-> travelerId, given |-> {}]

\* vehicleId: absent (0), not positive (-1), a vehicle, no vehicle.
\* travelerId: absent (0, looked up by email), a traveler, no traveler.
CheckInBodies ==
    {CheckInBody(v, e, t) :
       v \in {0, -1, 1, 2}, e \in {"", UserA, UserB}, t \in {0, 2, 9}}

\* The lookup with AND active = 1 dropped.
ActiveCheckIns_Ever(vehicleId, email) ==
    {c \in db.check_ins :
       c.vehicle_id = vehicleId /\ c.traveler_email = email}

\* SELECT * FROM check_ins WHERE vehicle_id = ? AND traveler_email = ? AND active = 1
ActiveCheckIns(vehicleId, email) ==
    {c \in db.check_ins :
       c.vehicle_id = vehicleId /\ c.traveler_email = email /\ c.active}

\* The self check-in test dropped.
SelfCheckIn_Anyone(user, travelerEmail) == TRUE

\* Only allow self check-in unless admin.
SelfCheckIn(user, travelerEmail) ==
    user.isAdmin \/ user.email = travelerEmail

\* let finalTravelerId = travelerId, else the traveler with that email, else null
finalTravelerId(body) ==
    IF body.travelerId # 0 THEN body.travelerId
    ELSE IF \E t \in db.travelers : t.email = body.travelerEmail
    THEN (CHOOSE t \in db.travelers : t.email = body.travelerEmail).id
    ELSE 0

\* FOREIGN KEY (vehicle_id) REFERENCES vehicles(id) and
\* FOREIGN KEY (traveler_id) REFERENCES travelers(id)
CheckInKeysExist(vehicleId, travelerId) ==
    /\ RowById(db.vehicles, vehicleId) # {}
    /\ travelerId = 0 \/ RowById(db.travelers, travelerId) # {}

CheckInPost(user, body) ==
    LET q == ReqArg("POST", "/check-ins", user, 0, body) IN
    /\ autoinc.check_ins <= InitAutoinc.check_ins + MaxCheckInInserts - 1
    /\ IF ~authenticateToken(user) THEN Refuse(q, Unauthorized)
       ELSE IF body.vehicleId = 0 \/ body.travelerEmail = ""
       THEN Refuse(q, Res(400, "Vehicle ID and traveler email required"))
       ELSE IF ~ValidId(body.vehicleId)
       THEN Refuse(q, Res(400, "Invalid vehicle ID"))
       ELSE IF ~SelfCheckIn(user, body.travelerEmail)
       THEN Refuse(q, Res(403, "Access denied"))
       ELSE IF ActiveCheckIns(body.vehicleId, body.travelerEmail) # {}
       THEN Refuse(q, Res(400, "Already checked in"))
       ELSE IF ~CheckInKeysExist(body.vehicleId, finalTravelerId(body))
       THEN Refuse(q, Res(500, "Failed to create check-in"))
       ELSE /\ Store(q, [Res(201, "Checked in successfully")
                           EXCEPT !.id = autoinc.check_ins],
                     "check_ins",
                     db.check_ins \cup
                       {[id |-> autoinc.check_ins,
                         vehicle_id |-> body.vehicleId,
                         traveler_email |-> body.travelerEmail,
                         traveler_id |-> finalTravelerId(body),
                         active |-> TRUE,
                         checked_out_at |-> FALSE]})
            /\ autoinc' = [autoinc EXCEPT !.check_ins = @ + 1]

\* Checkout: only admin or owner.
OwnsCheckIn(user, checkIn) ==
    user.isAdmin \/ checkIn.traveler_email = user.email

\* The UPDATE leaving the row as it is.
CheckedOut_Still(c) == c

\* UPDATE check_ins SET active = 0, checked_out_at = NOW()
CheckedOut(c) == [c EXCEPT !.active = FALSE, !.checked_out_at = TRUE]

CheckInCheckout(user, id) ==
    LET q == Req("POST", "/check-ins/:id/checkout", user, id) IN
    IF ~authenticateToken(user) THEN Refuse(q, Unauthorized)
    ELSE IF RowById(db.check_ins, id) = {}
    THEN Refuse(q, Res(404, "Check-in not found"))
    ELSE IF \E c \in RowById(db.check_ins, id) : ~OwnsCheckIn(user, c)
    THEN Refuse(q, Res(403, "Access denied"))
    ELSE /\ Store(q, Res(200, "Checked out successfully"), "check_ins",
                  {IF c.id = id THEN CheckedOut(c) ELSE c : c \in db.check_ins})
         /\ UNCHANGED autoinc

\* DELETE /check-ins/vehicle/:vehicleId: every active row of the vehicle.
CheckInClear(user, vehicleId) ==
    LET q == Req("DELETE", "/check-ins/vehicle/:vehicleId", user, vehicleId) IN
    IF ~authenticateToken(user) THEN Refuse(q, Unauthorized)
    ELSE IF ~requireAdmin(user) THEN Refuse(q, AdminRequired)
    ELSE /\ Store(q, Res(200, "All check-ins cleared for vehicle"), "check_ins",
                  {IF c.vehicle_id = vehicleId /\ c.active THEN CheckedOut(c)
                   ELSE c : c \in db.check_ins})
         /\ UNCHANGED autoinc

CheckInIds == 1 .. (InitAutoinc.check_ins + MaxCheckInInserts)

NextCheckIns ==
    \/ \E u \in Callers, b \in CheckInBodies : CheckInPost(u, b)
    \/ \E u \in Callers, id \in CheckInIds : CheckInCheckout(u, id)
    \/ \E u \in Callers, v \in VehicleIds : CheckInClear(u, v)
    \/ \E u \in Callers, v \in VehicleIds : VehicleDelete(u, v)
    \/ \E u \in Callers, id \in TravelerIds : TravelerDelete(u, id)

SpecCheckIns == Init /\ [][NextCheckIns]_vars

\* The check-in routes over two vehicles.
NextCheckInsClear ==
    \/ VehiclePost(TokenAdmin, GoodVehicleBody)
    \/ \E u \in {TokenA, TokenB}, v \in 1..2 :
         CheckInPost(u, CheckInBody(v, u.email, 0))
    \/ \E u \in {TokenA, TokenAdmin}, id \in CheckInIds : CheckInCheckout(u, id)
    \/ \E u \in Callers, v \in 1..2 : CheckInClear(u, v)

SpecCheckInsClear == Init /\ [][NextCheckInsClear]_vars

(***************************************************************************)
(* POST /check-ins as the event loop runs it: the handler awaits its       *)
(* SELECT of the active row and, later, its INSERT, and the handlers of    *)
(* other connections run in between.  inflight holds the requests that     *)
(* have passed the SELECT and not yet inserted.                            *)
(***************************************************************************)
\* POST /check-ins up to the answer of `SELECT ... AND active = 1`.
CheckInBegin(conn, user, body) ==
    LET q == ReqArg("POST", "/check-ins", user, 0, body) IN
    /\ \A p \in inflight : p.conn # conn
    /\ IF ~authenticateToken(user) THEN Refuse(q, Unauthorized)
       ELSE IF body.vehicleId = 0 \/ body.travelerEmail = ""
       THEN Refuse(q, Res(400, "Vehicle ID and traveler email required"))
       ELSE IF ~ValidId(body.vehicleId)
       THEN Refuse(q, Res(400, "Invalid vehicle ID"))
       ELSE IF ~SelfCheckIn(user, body.travelerEmail)
       THEN Refuse(q, Res(403, "Access denied"))
       ELSE IF ActiveCheckIns(body.vehicleId, body.travelerEmail) # {}
       THEN Refuse(q, Res(400, "Already checked in"))
       ELSE /\ inflight' = inflight \cup
                             {[conn |-> conn, user |-> user, body |-> body]}
            /\ UNCHANGED <<db, autoinc, req, resp, now, client>>

\* POST /check-ins from there: the traveler id, the INSERT, the answer.
CheckInFinish(p) ==
    LET q == ReqArg("POST", "/check-ins", p.user, 0, p.body)
        id == autoinc.check_ins IN
    /\ p \in inflight
    /\ autoinc.check_ins <= InitAutoinc.check_ins + MaxCheckInInserts - 1
    /\ inflight' = inflight \ {p}
    /\ req' = q
    /\ UNCHANGED <<now, client>>
    /\ IF ~CheckInKeysExist(p.body.vehicleId, finalTravelerId(p.body))
       THEN /\ resp' = Res(500, "Failed to create check-in")
            /\ UNCHANGED <<db, autoinc>>
       ELSE /\ resp' = [Res(201, "Checked in successfully") EXCEPT !.id = id]
            /\ db' = [db EXCEPT !.check_ins = @ \cup
                        {[id |-> id,
                          vehicle_id |-> p.body.vehicleId,
                          traveler_email |-> p.body.travelerEmail,
                          traveler_id |-> finalTravelerId(p.body),
                          active |-> TRUE,
                          checked_out_at |-> FALSE]}]
            /\ autoinc' = [autoinc EXCEPT !.check_ins = @ + 1]

NextCheckInsConcurrent ==
    \/ \E c \in 1..MaxConnections, u \in {NoToken, TokenA, TokenAdmin},
          b \in {CheckInBody(v, e, 0) : v \in {0, 1, 2}, e \in {UserA, UserB}} :
          CheckInBegin(c, u, b)
    \/ \E p \in inflight : CheckInFinish(p)
    \/ \E u \in {TokenA, TokenAdmin}, id \in CheckInIds : CheckInCheckout(u, id)

SpecCheckInsConcurrent == Init /\ [][NextCheckInsConcurrent]_vars

(***************************************************************************)
(* GET /check-ins/vehicle/:vehicleId: the travelers of a vehicle with      *)
(* their check-in status.  checked_in_at grows with the id, so ORDER BY    *)
(* checked_in_at DESC is the ids in descending order; the emails of the    *)
(* model are lower case, as toLowerCase() leaves them.                     *)
(***************************************************************************)
\* checkInMap.get(email) after checkIns.forEach(ci => checkInMap.set(...)):
\* every row of the email overwrites the entry of the rows before it.
checkInMap(checkIns, email) ==
    LET rows == {i \in 1..Len(checkIns) : checkIns[i].traveler_email = email}
    IN checkIns[CHOOSE i \in rows : \A j \in rows : j <= i].active

\* The entry pushed for a check-in row whose email `formatted` lacks: the
\* first row of the email, the later ones find the entry.
firstCheckIn(checkIns, email) ==
    LET rows == {i \in 1..Len(checkIns) : checkIns[i].traveler_email = email}
    IN checkIns[CHOOSE i \in rows : \A j \in rows : i <= j].active

\* active: the query parameter, "" when absent.
CheckInsByVehicle(user, vehicleId, active) ==
    LET q == ReqArg("GET", "/check-ins/vehicle/:vehicleId", user, vehicleId,
                    [given |-> {}, active |-> active])
        checkIns == DescById({c \in db.check_ins :
                                /\ c.vehicle_id = vehicleId
                                /\ active # "" => c.active = (active = "true")})
        emails == {checkIns[i].traveler_email : i \in 1..Len(checkIns)}
        allTravelers == {t.email : t \in {t \in db.travelers :
                                            t.vehicle_id = vehicleId}}
        formatted ==
            {[email |-> e,
              checkedIn |-> IF e \in emails THEN checkInMap(checkIns, e)
                            ELSE FALSE] : e \in allTravelers}
              \cup {[email |-> e, checkedIn |-> firstCheckIn(checkIns, e)] :
                      e \in emails \ allTravelers} IN
    IF ~authenticateToken(user) THEN Refuse(q, Unauthorized)
    ELSE IF ~requireAdmin(user) THEN Refuse(q, AdminRequired)
    ELSE IF vehicleId <= 0 THEN Refuse(q, Res(400, "Invalid vehicle ID"))
    ELSE Refuse(q, [Res(200, "") EXCEPT
                      !.travelers = formatted,
                      !.checkIns = {c.email : c \in {c \in formatted :
                                                       c.checkedIn}}])

NextCheckInsByVehicle ==
    \/ \E u \in {TokenA, TokenB, TokenAdmin}, e \in {UserA, UserB} :
          CheckInPost(u, CheckInBody(1, e, 0))
    \/ \E id \in CheckInIds : CheckInCheckout(TokenAdmin, id)
    \/ \E u \in Callers, v \in 0..2, a \in {"", "true", "false"} :
          CheckInsByVehicle(u, v, a)

SpecCheckInsByVehicle == Init /\ [][NextCheckInsByVehicle]_vars

(***************************************************************************)
(* Announcements: routes/announcements.js over the announcements table.    *)
(* The repository holds the router in two generations; the newer one is    *)
(* modelled first.  recipient_value is NULL, a plain text, or the JSON     *)
(* text the router builds from a recipients array.  scheduled_time is the  *)
(* clock value at which it falls, 0 when NULL; sent_at is kept as "has     *)
(* been set".                                                              *)
(***************************************************************************)
\* The clock advances.
Tick ==
    /\ now < MaxTime
    /\ now' = now + 1
    /\ UNCHANGED <<db, autoinc, req, resp, client, inflight>>

NoValue == [k |-> "null", s |-> "", list |-> {}]

Text(str) == [k |-> "text", s |-> str, list |-> {}]

\* JSON.stringify({type: 'ALL_GROUP_LEADERS', recipients: recipients})
GroupLeadersJson(recipients) ==
    [k |-> "json", s |-> "", list |-> {recipients[i] : i \in 1 .. Len(recipients)}]

\* JSON.stringify(recipients)
RecipientsJson(recipients) ==
    [k |-> "jsonarray", s |-> "",
     list |-> {recipients[i] : i \in 1 .. Len(recipients)}]

\* recipientValue is "" when absent, scheduledTime 0 when absent and -1 when
\* it is a text new Date() cannot read.
AnnouncementBody(recipientType, recipientValue, recipients, message,
                 timingType, scheduledTime) ==
    [recipientType |-> recipientType, recipientValue |-> recipientValue,
     recipients |-> recipients, message |-> message,
     timingType |-> timingType, scheduledTime |-> scheduledTime,
     given |-> {}]

ToAll == AnnouncementBody("all-travelers", "", <<>>, "hello", "", 0)

AnnouncementBodies ==
    {ToAll,
     [ToAll EXCEPT !.timingType = "instant"],
     [ToAll EXCEPT !.timingType = "scheduled", !.scheduledTime = 1],
     [ToAll EXCEPT !.timingType = "scheduled"],
     [ToAll EXCEPT !.timingType = "scheduled", !.scheduledTime = -1],
     [ToAll EXCEPT !.recipientType = "all-group-leaders"],
     [ToAll EXCEPT !.recipientType = "all-group-leaders",
                   !.recipients = <<UserA>>],
     [ToAll EXCEPT !.recipientType = "specific-traveler",
                   !.recipientValue = UserB],
     [ToAll EXCEPT !.recipientType = "specific-group-leader",
                   !.recipients = <<UserA>>],
     [ToAll EXCEPT !.recipientType = "by-vehicle", !.recipientValue = "1"],
     [ToAll EXCEPT !.recipientType = "everyone"],
     [ToAll EXCEPT !.recipientType = ""],
     [ToAll EXCEPT !.message = ""],
     [ToAll EXCEPT !.message = " "]}

\* message.trim(), for the messages of AnnouncementBodies
Trim(message) == IF message = " " THEN "" ELSE message

\* parseInt of a text, 0 for NaN
ParseIntText(str) ==
    IF str = "1" THEN 1 ELSE IF str = "2" THEN 2 ELSE 0

\* /^[^\s@]+@[^\s@]+\.[^\s@]+$/ : UserA, UserB and UserC stand for
\* well-formed addresses, "nobody" for a text that is none.
EmailFormatOk(email) == email \notin {"", "nobody"}

\* 'by-vehicle' is stored as 'specific-vehicle'; 'all-group-leaders' and
\* 'specific-group-leader' as 'specific-traveler'.
dbRecipientType(recipientType) ==
    IF recipientType = "by-vehicle" THEN "specific-vehicle"
    ELSE IF recipientType \in {"all-group-leaders", "specific-group-leader"}
    THEN "specific-traveler"
    ELSE recipientType

\* ENUM('all-travelers', 'specific-vehicle', 'specific-traveler')
AllowedTypes == {"all-travelers", "specific-vehicle", "specific-traveler"}

\* recipientValue || (recipients && recipients[0]) || null
ValueOrFirst(body) ==
    IF body.recipientValue # "" THEN Text(body.recipientValue)
    ELSE IF Len(body.recipients) > 0 THEN Text(body.recipients[1])
    ELSE NoValue

recipientValueToStore(body) ==
    IF body.recipientType = "all-travelers" THEN Text("ALL_TRAVELERS")
    ELSE IF body.recipientType = "all-group-leaders"
    THEN IF Len(body.recipients) > 0 THEN GroupLeadersJson(body.recipients)
         ELSE Text("ALL_GROUP_LEADERS")
    ELSE IF body.recipientType \in {"specific-group-leader", "specific-traveler"}
    THEN ValueOrFirst(body)
    ELSE IF body.recipientValue # "" THEN Text(body.recipientValue)
    ELSE NoValue

finalTimingType(body) ==
    IF body.timingType \in {"instant", "scheduled"} THEN body.timingType
    ELSE "instant"

finalScheduledTime(body) ==
    IF finalTimingType(body) = "scheduled" /\ body.scheduledTime # 0
    THEN body.scheduledTime ELSE 0

Announcement(id, type, value, timing, scheduledTime, sent) ==
    [id |-> id, recipient_type |-> type, recipient_value |-> value,
     timing_type |-> timing, scheduled_time |-> scheduledTime,
     sent |-> sent, sent_at |-> FALSE]

\* POST /announcements, while fewer than max announcements were inserted.
AnnouncementPostUpTo(max, user, body) ==
    LET q == ReqArg("POST", "/announcements", user, 0, body) IN
    /\ autoinc.announcements <= InitAutoinc.announcements + max - 1
    /\ IF ~authenticateToken(user) THEN Refuse(q, Unauthorized)
       ELSE IF ~requireAdmin(user) THEN Refuse(q, AdminRequired)
       ELSE IF body.message = "" \/ body.recipientType = ""
       THEN Refuse(q, Res(400, "Missing required fields: message, recipientType"))
       ELSE IF dbRecipientType(body.recipientType) \notin AllowedTypes
       THEN Refuse(q, Res(400, "Invalid recipient type"))
       ELSE IF Trim(body.message) = ""
       THEN Refuse(q, Res(400, "Message cannot be empty"))
       ELSE IF finalTimingType(body) = "scheduled" /\ body.scheduledTime = -1
       THEN Refuse(q, Res(400, "Invalid scheduled time format"))
       ELSE /\ Store(q, [Res(201, "Announcement created successfully")
                           EXCEPT !.id = autoinc.announcements],
                     "announcements",
                     db.announcements \cup
                       {Announcement(autoinc.announcements,
                                     dbRecipientType(body.recipientType),
                                     recipientValueToStore(body),
                                     finalTimingType(body),
                                     finalScheduledTime(body), FALSE)})
            /\ autoinc' = [autoinc EXCEPT !.announcements = @ + 1]

AnnouncementPost(user, body) ==
    AnnouncementPostUpTo(MaxAnnouncementInserts, user, body)

\* The query without the schedule.
IsPending_Early(a) == ~a.sent

\* The query without sent = FALSE.
IsPending_SentToo(a) ==
    \/ a.timing_type = "instant"
    \/ a.timing_type = "scheduled" /\ a.scheduled_time # 0
                                   /\ a.scheduled_time <= now

\* WHERE sent = FALSE AND (timing_type = 'instant' OR
\*   (timing_type = 'scheduled' AND scheduled_time <= NOW()))
IsPending(a) ==
    /\ ~a.sent
    /\ \/ a.timing_type = "instant"
       \/ /\ a.timing_type = "scheduled"
          /\ a.scheduled_time # 0
          /\ a.scheduled_time <= now

\* GET /announcements/pending: public.
AnnouncementPending(user) ==
    Refuse(Req("GET", "/announcements/pending", user, 0),
           [Res(200, "") EXCEPT
              !.announcements = {a \in db.announcements : IsPending(a)}])

\* const userVehicleId = traveler ? traveler.vehicle_id : null
userVehicleId(email) ==
    IF \E t \in db.travelers : t.email = email
    THEN (CHOOSE t \in db.travelers : t.email = email).vehicle_id
    ELSE 0

isGroupLeader(email) == \E v \in db.vehicles : v.group_leader_email = email

shouldReceive(a, email) ==
    IF a.recipient_type = "all-travelers"
    THEN a.recipient_value.k = "null"
           \/ (a.recipient_value.k = "text"
                 /\ a.recipient_value.s \in {"ALL_TRAVELERS", "null", ""})
    ELSE IF a.recipient_type = "specific-traveler"
    THEN IF a.recipient_value = Text("ALL_GROUP_LEADERS")
         THEN isGroupLeader(email)
         ELSE IF a.recipient_value.k = "json"
         THEN isGroupLeader(email) /\ email \in a.recipient_value.list
         ELSE a.recipient_value = Text(email)
    ELSE IF a.recipient_type = "specific-vehicle"
    THEN /\ userVehicleId(email) # 0
         /\ a.recipient_value.k = "text"
         /\ ParseIntText(a.recipient_value.s) # 0
         /\ ParseIntText(a.recipient_value.s) = userVehicleId(email)
    ELSE FALSE

\* GET /announcements/user/:email: public.
AnnouncementsForUser(user, email) ==
    LET q == ReqArg("GET", "/announcements/user/:email", user, 0,
                    [given |-> {}, email |-> email])
    IN
    IF ~EmailFormatOk(email) THEN Refuse(q, Res(400, "Invalid email format"))
    ELSE Refuse(q, [Res(200, "") EXCEPT
                      !.announcements =
                          {a \in db.announcements :
                             IsPending(a) /\ shouldReceive(a, email)}])

\* GET /announcements: admin only.
AnnouncementGetAll(user) ==
    LET q == Req("GET", "/announcements", user, 0) IN
    IF ~authenticateToken(user) THEN Refuse(q, Unauthorized)
    ELSE IF ~requireAdmin(user) THEN Refuse(q, AdminRequired)
    ELSE Refuse(q, [Res(200, "") EXCEPT !.announcements = db.announcements])

\* PUT /announcements/:id/sent: UPDATE ... SET sent = TRUE, sent_at = NOW()
AnnouncementMarkSent(user, id) ==
    LET q == Req("PUT", "/announcements/:id/sent", user, id) IN
    IF ~authenticateToken(user) THEN Refuse(q, Unauthorized)
    ELSE IF ~requireAdmin(user) THEN Refuse(q, AdminRequired)
    ELSE /\ Store(q, Res(200, "Announcement marked as sent"), "announcements",
                  {IF a.id = id THEN [a EXCEPT !.sent = TRUE, !.sent_at = TRUE]
                   ELSE a : a \in db.announcements})
         /\ UNCHANGED autoinc

\* DELETE /announcements/:id
AnnouncementDelete(user, id) ==
    LET q == Req("DELETE", "/announcements/:id", user, id) IN
    IF ~authenticateToken(user) THEN Refuse(q, Unauthorized)
    ELSE IF ~requireAdmin(user) THEN Refuse(q, AdminRequired)
    ELSE /\ Store(q, Res(200, "Announcement deleted successfully"),
                  "announcements", {a \in db.announcements : a.id # id})
         /\ UNCHANGED autoinc

AnnouncementIds ==
    1 .. (InitAutoinc.announcements + MaxAnnouncementInserts - 1)

\* The addresses a client polls with.
PollEmails == {UserA, UserB, UserC, "nobody"}

\* Who may call the public and the admin routes here: no token, a traveler,
\* the admin.
AnnouncementCallers == {NoToken, TokenB, TokenAdmin}

NextAnnouncements ==
    \/ Tick
    \/ \E u \in AnnouncementCallers, b \in AnnouncementBodies :
         AnnouncementPost(u, b)
    \/ \E u \in AnnouncementCallers : AnnouncementPending(u)
    \/ \E u \in AnnouncementCallers, e \in PollEmails :
         AnnouncementsForUser(u, e)
    \/ \E u \in AnnouncementCallers : AnnouncementGetAll(u)
    \/ \E u \in AnnouncementCallers, id \in AnnouncementIds :
         AnnouncementMarkSent(u, id)
    \/ \E u \in AnnouncementCallers, id \in AnnouncementIds :
         AnnouncementDelete(u, id)
    \/ \E id \in VehicleIds :
         VehiclePut(TokenAdmin, id,
                    [EmptyVehicleBody EXCEPT !.groupLeaderEmail = UserB])

SpecAnnouncements == Init /\ [][NextAnnouncements]_vars

\* Several announcements, instant and scheduled, polled while the clock
\* advances.
MaxPolledAnnouncements == 2

PolledIds == 1 .. MaxPolledAnnouncements

PolledBodies ==
    {ToAll,
     [ToAll EXCEPT !.timingType = "scheduled", !.scheduledTime = 1],
     [ToAll EXCEPT !.timingType = "scheduled", !.scheduledTime = 2],
     [ToAll EXCEPT !.timingType = "scheduled"]}

NextAnnouncementsPolled ==
    \/ Tick
    \/ \E b \in PolledBodies :
         AnnouncementPostUpTo(MaxPolledAnnouncements, TokenAdmin, b)
    \/ AnnouncementPending(NoToken)
    \/ AnnouncementsForUser(NoToken, UserA)
    \/ \E u \in {TokenB, TokenAdmin}, id \in PolledIds :
         AnnouncementMarkSent(u, id)
    \/ \E id \in PolledIds : AnnouncementDelete(TokenAdmin, id)

SpecAnnouncementsPolled == Init /\ [][NextAnnouncementsPolled]_vars

\* The same with a clock that does not stop short of MaxTime.
SpecAnnouncementsFair == SpecAnnouncementsPolled /\ WF_vars(Tick)

(***************************************************************************)
(* The older generation of the announcements router: no validation beyond  *)
(* the required fields, recipients stored as a bare JSON array, and the    *)
(* sent flag taken from the timing type.  The ENUM and DATETIME columns    *)
(* refuse a value outside their domain (strict SQL mode).                  *)
(***************************************************************************)
OldRecipientValueToStore(body) ==
    IF body.recipientType \in {"all-travelers", "all-group-leaders"}
    THEN IF Len(body.recipients) > 0 THEN RecipientsJson(body.recipients)
         ELSE IF body.recipientValue # "" THEN Text(body.recipientValue)
         ELSE NoValue
    ELSE IF body.recipientType = "specific-group-leader"
    THEN ValueOrFirst(body)
    ELSE IF body.recipientValue # "" THEN Text(body.recipientValue)
    ELSE NoValue

\* timingType === 'instant' ? true : false
OldSent(body) == body.timingType = "instant"

OldAnnouncementPost(user, body) ==
    LET q == ReqArg("POST", "/announcements", user, 0, body) IN
    /\ autoinc.announcements
         <= InitAutoinc.announcements + MaxAnnouncementInserts - 1
    /\ IF ~authenticateToken(user) THEN Refuse(q, Unauthorized)
       ELSE IF ~requireAdmin(user) THEN Refuse(q, AdminRequired)
       ELSE IF body.message = "" \/ body.recipientType = ""
       THEN Refuse(q, Res(400, "Missing required fields: message, recipientType"))
       ELSE IF dbRecipientType(body.recipientType) \notin AllowedTypes
                 \/ body.scheduledTime = -1
       THEN Refuse(q, Res(500, "Failed to create announcement"))
       ELSE /\ Store(q, [Res(201, "Announcement created successfully")
                           EXCEPT !.id = autoinc.announcements],
                     "announcements",
                     db.announcements \cup
                       {Announcement(autoinc.announcements,
                                     dbRecipientType(body.recipientType),
                                     OldRecipientValueToStore(body),
                                     finalTimingType(body),
                                     body.scheduledTime, OldSent(body))})
            /\ autoinc' = [autoinc EXCEPT !.announcements = @ + 1]

\* SELECT id FROM travelers WHERE email = ? AND vehicle_id = ?
InVehicle(email, value) ==
    \E t \in db.travelers :
      /\ t.email = email
      /\ t.vehicle_id # 0
      /\ value.k = "text"
      /\ ParseIntText(value.s) = t.vehicle_id

OldShouldReceive(a, email) ==
    IF a.recipient_type = "all-travelers" THEN TRUE
    ELSE IF a.recipient_type = "specific-traveler"
    THEN a.recipient_value = Text(email)
    ELSE IF a.recipient_type = "specific-vehicle"
    THEN InVehicle(email, a.recipient_value)
    ELSE FALSE

OldAnnouncementsForUser(user, email) ==
    Refuse(ReqArg("GET", "/announcements/user/:email", user, 0,
                  [given |-> {}, email |-> email]),
           [Res(200, "") EXCEPT
              !.announcements =
                  {a \in db.announcements :
                     IsPending(a) /\ OldShouldReceive(a, email)}])

NextAnnouncementsOld ==
    \/ Tick
    \/ \E u \in AnnouncementCallers, b \in AnnouncementBodies :
         OldAnnouncementPost(u, b)
    \/ \E u \in AnnouncementCallers : AnnouncementPending(u)
    \/ \E u \in AnnouncementCallers, e \in PollEmails :
         OldAnnouncementsForUser(u, e)
    \/ \E u \in AnnouncementCallers : AnnouncementGetAll(u)
    \/ \E u \in AnnouncementCallers, id \in AnnouncementIds :
         AnnouncementMarkSent(u, id)
    \/ \E u \in AnnouncementCallers, id \in AnnouncementIds :
         AnnouncementDelete(u, id)

SpecAnnouncementsOld == Init /\ [][NextAnnouncementsOld]_vars

(***************************************************************************)
(* Vehicle allotments: the day-wise routes of routes/vehicles.js over the  *)
(* vehicle_allotments table.  The table is created outside                 *)
(* database-setup.sql; its rows and its duplicate key are taken from the   *)
(* statements that use it.  updated_at is kept as "set by the ON           *)
(* DUPLICATE KEY UPDATE branch".                                           *)
(***************************************************************************)
\* normalizeDate: the UTC day of the instant the text parses to, "" for the
\* null a falsy or unparseable text gives.
normalizeDate(value) ==
    CASE value \in {"2025-01-01", "2025-01-01T10:00:00Z"} -> "2025-01-01"
      [] value = "2025-01-02" -> "2025-01-02"
      [] OTHER -> ""

Allotment(date, travelerId, vehicleId) ==
    [date |-> date, traveler_id |-> travelerId, vehicle_id |-> vehicleId,
     updated_at |-> FALSE]

\* The key ON DUPLICATE KEY UPDATE detects: one allotment per day and traveler.
AllotmentKey(r) == <<r.date, r.traveler_id>>

\* INSERT with no regard for the row already stored under the key.
Upsert_Append(rows, row) == rows \cup {row}

\* INSERT ... ON DUPLICATE KEY UPDATE vehicle_id = VALUES(vehicle_id),
\* updated_at = CURRENT_TIMESTAMP.
Upsert(rows, row) ==
    IF \E r \in rows : AllotmentKey(r) = AllotmentKey(row)
    THEN {IF AllotmentKey(r) = AllotmentKey(row)
          THEN [r EXCEPT !.vehicle_id = row.vehicle_id, !.updated_at = TRUE]
          ELSE r : r \in rows}
    ELSE rows \cup {row}

\* The multi-row INSERT works through its VALUES from left to right.
RECURSIVE UpsertAll(_, _)
UpsertAll(rows, values) ==
    IF values = <<>> THEN rows
    ELSE UpsertAll(Upsert(rows, Head(values)), Tail(values))

AllotmentArg(date, travelerId, vehicleId) ==
    [given |-> {}, date |-> date, travelerId |-> travelerId,
     vehicleId |-> vehicleId]

\* POST /vehicles/allotments
AllotmentPost(user, date, travelerId, vehicleId) ==
    LET q == ReqArg("POST", "/vehicles/allotments", user, 0,
                    AllotmentArg(date, travelerId, vehicleId)) IN
    IF ~authenticateToken(user) THEN Refuse(q, Unauthorized)
    ELSE IF ~requireAdmin(user) THEN Refuse(q, AdminRequired)
    ELSE IF normalizeDate(date) = "" \/ travelerId = 0 \/ vehicleId = 0
    THEN Refuse(q, Res(400, "date, travelerId and vehicleId are required"))
    ELSE /\ Store(q, Res(201, "Vehicle allotment saved successfully"),
                  "vehicle_allotments",
                  Upsert(db.vehicle_allotments,
                         Allotment(normalizeDate(date), travelerId, vehicleId)))
         /\ UNCHANGED autoinc

\* The request's date taken for every assignment.
targetDate_RequestOnly(assignment, date) == normalizeDate(date)

\* assignment.date || date
targetDate(assignment, date) ==
    normalizeDate(IF assignment.date # "" THEN assignment.date ELSE date)

\* POST /vehicles/allotments/bulk
AllotmentBulk(user, date, assignments, replaceExisting) ==
    LET q == ReqArg("POST", "/vehicles/allotments/bulk", user, 0,
                    [given |-> {}, date |-> date, assignments |-> assignments,
                     replaceExisting |-> replaceExisting])
        idx == 1..Len(assignments)
        rows == [i \in idx |->
                   Allotment(targetDate(assignments[i], date),
                             assignments[i].travelerId,
                             assignments[i].vehicleId)]
        datesToClear == {rows[i].date : i \in idx}
        kept == IF replaceExisting
                THEN {r \in db.vehicle_allotments : r.date \notin datesToClear}
                ELSE db.vehicle_allotments IN
    IF ~authenticateToken(user) THEN Refuse(q, Unauthorized)
    ELSE IF ~requireAdmin(user) THEN Refuse(q, AdminRequired)
    ELSE IF assignments = <<>>
    THEN Refuse(q, Res(400, "assignments array is required"))
    ELSE IF \E i \in idx : rows[i].date = ""
    THEN Refuse(q, Res(500, "Invalid date in assignment"))
    ELSE IF \E i \in idx : rows[i].traveler_id = 0 \/ rows[i].vehicle_id = 0
    THEN Refuse(q, Res(500, "Invalid travelerId or vehicleId in assignment"))
    ELSE /\ Store(q, Res(201, "Vehicle allotments saved successfully"),
                  "vehicle_allotments", UpsertAll(kept, rows))
         /\ UNCHANGED autoinc

\* DELETE /vehicles/allotments
AllotmentDelete(user, date, travelerId, vehicleId) ==
    LET q == ReqArg("DELETE", "/vehicles/allotments", user, 0,
                    AllotmentArg(date, travelerId, vehicleId))
        doomed == {r \in db.vehicle_allotments :
                     /\ r.date = normalizeDate(date)
                     /\ travelerId # 0 => r.traveler_id = travelerId
                     /\ vehicleId # 0 => r.vehicle_id = vehicleId} IN
    IF ~authenticateToken(user) THEN Refuse(q, Unauthorized)
    ELSE IF ~requireAdmin(user) THEN Refuse(q, AdminRequired)
    ELSE IF normalizeDate(date) = ""
    THEN Refuse(q, Res(400, "Valid date query param is required"))
    ELSE /\ Store(q, Res(200, "Vehicle allotments deleted successfully"),
                  "vehicle_allotments", db.vehicle_allotments \ doomed)
         /\ UNCHANGED autoinc

AllotmentDates == {"", "2025-01-01", "2025-01-01T10:00:00Z", "2025-01-02"}

\* Entries of a bulk save: on the request's date, on their own date, invalid.
AssignmentRows ==
    {[date |-> "", travelerId |-> 1, vehicleId |-> 2],
     [date |-> "2025-01-02", travelerId |-> 2, vehicleId |-> 1],
     [date |-> "", travelerId |-> 0, vehicleId |-> 1]}

Assignments ==
    {<<>>} \cup {<<a>> : a \in AssignmentRows}
           \cup {<<a, b>> : a, b \in AssignmentRows}

NextAllotments ==
    \/ \E u \in {NoToken, TokenA, TokenAdmin}, d \in AllotmentDates,
          t \in 0..1, v \in 1..2 : AllotmentPost(u, d, t, v)
    \/ \E u \in {TokenA, TokenAdmin}, d \in {"", "2025-01-01"},
          a \in Assignments, x \in BOOLEAN : AllotmentBulk(u, d, a, x)
    \/ \E u \in {TokenA, TokenAdmin}, d \in {"", "2025-01-01"},
          t \in 0..1, v \in {0, 2} : AllotmentDelete(u, d, t, v)

SpecAllotments == Init /\ [][NextAllotments]_vars

\* Bulk saves over days that already hold allotments.  Entries: on the
\* request's date, on their own date, a second vehicle for the first
\* entry's traveler, no traveler id, an unreadable date.
BulkRows ==
    {[date |-> "", travelerId |-> 1, vehicleId |-> 2],
     [date |-> "2025-01-02", travelerId |-> 2, vehicleId |-> 2],
     [date |-> "", travelerId |-> 1, vehicleId |-> 1],
     [date |-> "", travelerId |-> 0, vehicleId |-> 1],
     [date |-> "someday", travelerId |-> 2, vehicleId |-> 1]}

BulkAssignments ==
    {<<>>} \cup {<<a>> : a \in BulkRows} \cup {<<a, b>> : a, b \in BulkRows}

NextAllotmentsBulk ==
    \/ \E d \in {"2025-01-01", "2025-01-02"}, t \in 1..2 :
         AllotmentPost(TokenAdmin, d, t, 1)
    \/ \E a \in BulkAssignments, x \in BOOLEAN :
         AllotmentBulk(TokenAdmin, "2025-01-01", a, x)

SpecAllotmentsBulk == Init /\ [][NextAllotmentsBulk]_vars

(***************************************************************************)
(* POST /vehicles/allotments/bulk as the event loop runs it: the handler   *)
(* awaits each DELETE and then the INSERT, outside any transaction, and    *)
(* the statements of other connections run in between.  inflight holds,    *)
(* for each connection, its request and how far it has got: the rows to    *)
(* insert, the dates still to clear, and whether it has been answered.     *)
(***************************************************************************)
\* The dates of the rows in the order datesToClear takes them up.
RECURSIVE DatesInOrder(_, _)
DatesInOrder(rows, seen) ==
    IF rows = <<>> THEN <<>>
    ELSE IF Head(rows).date \in seen THEN DatesInOrder(Tail(rows), seen)
    ELSE <<Head(rows).date>>
           \o DatesInOrder(Tail(rows), seen \cup {Head(rows).date})

\* The handler up to its first awaited statement.
BulkBegin(conn, user, date, assignments) ==
    LET q == ReqArg("POST", "/vehicles/allotments/bulk", user, 0,
                    [given |-> {}, date |-> date, assignments |-> assignments,
                     replaceExisting |-> TRUE])
        idx == 1..Len(assignments)
        rows == [i \in idx |->
                   Allotment(targetDate(assignments[i], date),
                             assignments[i].travelerId,
                             assignments[i].vehicleId)] IN
    /\ \A p \in inflight : p.conn # conn
    /\ IF ~authenticateToken(user) THEN Refuse(q, Unauthorized)
       ELSE IF ~requireAdmin(user) THEN Refuse(q, AdminRequired)
       ELSE IF assignments = <<>>
       THEN Refuse(q, Res(400, "assignments array is required"))
       ELSE IF \E i \in idx : rows[i].date = ""
       THEN Refuse(q, Res(500, "Invalid date in assignment"))
       ELSE IF \E i \in idx : rows[i].traveler_id = 0 \/ rows[i].vehicle_id = 0
       THEN Refuse(q, Res(500, "Invalid travelerId or vehicleId in assignment"))
       ELSE /\ inflight' = inflight \cup
                             {[conn |-> conn, q |-> q, rows |-> rows,
                               clear |-> DatesInOrder(rows, {}),
                               done |-> FALSE]}
            /\ UNCHANGED <<db, autoinc, req, resp, now, client>>

\* await query('DELETE FROM vehicle_allotments WHERE date = ?', [d])
BulkDelete(p) ==
    /\ p \in inflight /\ ~p.done /\ p.clear # <<>>
    /\ db' = [db EXCEPT !.vehicle_allotments =
                 {r \in @ : r.date # Head(p.clear)}]
    /\ inflight' = (inflight \ {p}) \cup {[p EXCEPT !.clear = Tail(@)]}
    /\ UNCHANGED <<autoinc, req, resp, now, client>>

\* The INSERT ... ON DUPLICATE KEY UPDATE and the answer.
BulkInsert(p) ==
    /\ p \in inflight /\ ~p.done /\ p.clear = <<>>
    /\ db' = [db EXCEPT !.vehicle_allotments = UpsertAll(@, p.rows)]
    /\ req' = p.q
    /\ resp' = Res(201, "Vehicle allotments saved successfully")
    /\ inflight' = (inflight \ {p}) \cup {[p EXCEPT !.done = TRUE]}
    /\ UNCHANGED <<autoinc, now, client>>

\* The assignments two administrators save for the same day.
ConcurrentAssignments ==
    {<<[date |-> "", travelerId |-> 1, vehicleId |-> 2]>>,
     <<[date |-> "", travelerId |-> 2, vehicleId |-> 2]>>,
     <<[date |-> "", travelerId |-> 1, vehicleId |-> 1],
       [date |-> "", travelerId |-> 2, vehicleId |-> 1]>>,
     <<[date |-> "", travelerId |-> 0, vehicleId |-> 1]>>,
     <<>>}

NextAllotmentsConcurrent ==
    \/ \E c \in 1..MaxConnections, u \in {NoToken, TokenA, TokenAdmin},
          a \in ConcurrentAssignments : BulkBegin(c, u, "2025-01-01", a)
    \/ \E p \in inflight : BulkDelete(p)
    \/ \E p \in inflight : BulkInsert(p)

SpecAllotmentsConcurrent == Init /\ [][NextAllotmentsConcurrent]_vars

(***************************************************************************)
(* GET /check-ins/my-status: the caller's vehicle for a day and whether    *)
(* the caller is checked in to it.  The response's vehicleId is resp.id (0 *)
(* for null); resp.flags holds those of active and isCheckedIn that are    *)
(* true.                                                                   *)
(***************************************************************************)
\* The UTC day new Date() gives: the clock starts on one day and every
\* later reading falls on the next.
Today == IF now = 0 THEN "2025-01-01" ELSE "2025-01-02"

\* normalizeDate of the check-ins router: value ? new Date(value) : new Date()
statusDate(value) == IF value = "" THEN Today ELSE normalizeDate(value)

\* The allotment lookup skipped.
dayVehicle_None(traveler, date) == 0

\* SELECT vehicle_id FROM vehicle_allotments WHERE traveler_id = ? AND date = ?
\* for a traveler found and a date read; 0 otherwise.
dayVehicle(traveler, date) ==
    LET rows == {r \in db.vehicle_allotments :
                   \E t \in traveler : r.traveler_id = t.id /\ r.date = date}
    IN IF date = "" \/ rows = {} THEN 0
       ELSE (CHOOSE r \in rows : TRUE).vehicle_id

\* GET /check-ins/my-status?date=
MyStatus(user, date) ==
    LET q == ReqArg("GET", "/check-ins/my-status", user, 0,
                    [given |-> {}, date |-> date])
        traveler == {t \in db.travelers : t.email = user.email}
        base == IF traveler = {} THEN 0
                ELSE (CHOOSE t \in traveler : TRUE).vehicle_id
        allotted == dayVehicle(traveler, statusDate(date))
        vehicleId == IF allotted # 0 THEN allotted ELSE base
        checkIn == ActiveCheckIns(vehicleId, user.email) IN
    IF ~authenticateToken(user) THEN Refuse(q, Unauthorized)
    ELSE IF vehicleId = 0 THEN Refuse(q, Res(200, ""))
    ELSE Refuse(q, [Res(200, "") EXCEPT
                      !.id = vehicleId,
                      !.checkIns = IF checkIn # {} THEN {user.email} ELSE {},
                      !.flags = IF checkIn # {} THEN {"active", "isCheckedIn"}
                                ELSE {"active"}])

NextMyStatus ==
    \/ \E u \in Callers, d \in {"", "2025-01-02", "someday"} : MyStatus(u, d)
    \/ \E t \in 1..2 : AllotmentPost(TokenAdmin, "2025-01-02", t, 3 - t)
    \/ AllotmentDelete(TokenAdmin, "2025-01-02", 0, 0)
    \/ \E u \in {TokenA, TokenB} : CheckInPost(u, CheckInBody(1, u.email, 0))
    \/ \E id \in CheckInIds : CheckInCheckout(TokenAdmin, id)
    \/ Tick

SpecMyStatus == Init /\ [][NextMyStatus]_vars

(***************************************************************************)
(* Journals: routes/journals.js over the journal_entries table, which the  *)
(* list and create handlers create on first use (journal_table).  An       *)
(* entry_date is a day number, 0 when the body has none; location is       *)
(* handled like mood and left out.                                         *)
(***************************************************************************)
\* The response shape of one entry.
formatJournal(e) ==
    [id |-> e.id, date |-> e.entry_date, mood |-> e.mood,
     content |-> e.content, userEmail |-> e.user_email]

RECURSIVE DescByDate(_)
\* ORDER BY entry_date DESC
DescByDate(rows) ==
    IF rows = {} THEN <<>>
    ELSE LET top == CHOOSE r \in rows :
                      \A o \in rows : o.entry_date <= r.entry_date
         IN <<formatJournal(top)>> \o DescByDate(rows \ {top})

\* GET /journals
JournalGetAll(user) ==
    LET q == Req("GET", "/journals", user, 0) IN
    IF ~authenticateToken(user) THEN Refuse(q, Unauthorized)
    ELSE /\ req' = q /\ UNCHANGED env
         /\ resp' = [Res(200, "") EXCEPT !.journals =
                       DescByDate({e \in db.journal_entries :
                                     e.user_email = user.email})]
         /\ db' = [db EXCEPT !.journal_table = TRUE]
         /\ UNCHANGED autoinc

\* Every entry, whoever owns it.
OwnEntries_AnyOwner(user, id) == RowById(db.journal_entries, id)

\* SELECT ... FROM journal_entries WHERE id = ? AND user_email = ?
OwnEntries(user, id) ==
    {e \in db.journal_entries : e.id = id /\ e.user_email = user.email}

\* What GET, PUT and DELETE /journals/:id answer before they act: "" when
\* the handler goes on.
JournalRefusal(user, id) ==
    IF ~authenticateToken(user) THEN Unauthorized
    ELSE IF id <= 0 THEN Res(400, "Invalid journal entry ID")
    ELSE IF ~db.journal_table THEN Res(500, "Failed")
    ELSE IF OwnEntries(user, id) = {} THEN Res(404, "Journal entry not found")
    ELSE Res(0, "")

\* GET /journals/:id
JournalGetById(user, id) ==
    LET q == Req("GET", "/journals/:id", user, id) IN
    IF JournalRefusal(user, id).status # 0
    THEN Refuse(q, JournalRefusal(user, id))
    ELSE Refuse(q, [Res(200, "") EXCEPT
                      !.journals = DescByDate(OwnEntries(user, id))])

\* UNIQUE KEY unique_user_date (user_email, entry_date)
DateTaken(email, date, exceptId) ==
    \E e \in db.journal_entries :
        e.user_email = email /\ e.entry_date = date /\ e.id # exceptId

JournalBody(date, mood, content) ==
    [date |-> date, mood |-> mood, content |-> content]

\* POST /journals
JournalPost(user, body) ==
    LET q == ReqArg("POST", "/journals", user, 0,
                    [given |-> {}, date |-> body.date])
        id == autoinc.journal_entries
        entry == [id |-> id, user_email |-> user.email,
                  entry_date |-> body.date, mood |-> body.mood,
                  content |-> body.content] IN
    /\ autoinc.journal_entries
         <= InitAutoinc.journal_entries + MaxJournalInserts - 1
    /\ IF ~authenticateToken(user) THEN Refuse(q, Unauthorized)
       ELSE /\ req' = q /\ UNCHANGED env
            /\ IF body.date = 0 \/ body.content = ""
               THEN /\ resp' = Res(400, "Date and content are required")
                    /\ db' = [db EXCEPT !.journal_table = TRUE]
                    /\ UNCHANGED autoinc
               ELSE IF DateTaken(user.email, body.date, 0)
               THEN /\ resp' = Res(500, "Failed to create journal entry")
                    /\ db' = [db EXCEPT !.journal_table = TRUE]
                    /\ UNCHANGED autoinc
               ELSE /\ resp' = [Res(201, "") EXCEPT
                                  !.id = id,
                                  !.journals = <<formatJournal(entry)>>]
                    /\ db' = [db EXCEPT !.journal_table = TRUE,
                                        !.journal_entries = @ \cup {entry}]
                    /\ autoinc' = [autoinc EXCEPT !.journal_entries = @ + 1]

\* PUT /journals/:id
JournalPut(user, id, body) ==
    LET q == ReqArg("PUT", "/journals/:id", user, id,
                    [given |-> {}, date |-> body.date])
        updated == {IF e.id = id /\ e.user_email = user.email
                    THEN [e EXCEPT !.entry_date = body.date,
                                   !.mood = body.mood,
                                   !.content = body.content]
                    ELSE e : e \in db.journal_entries} IN
    IF JournalRefusal(user, id).status # 0
    THEN Refuse(q, JournalRefusal(user, id))
    ELSE IF \/ body.date = 0 \/ body.content = ""
            \/ DateTaken(user.email, body.date, id)
    THEN Refuse(q, Res(500, "Failed to update journal entry"))
    ELSE /\ Store(q, [Res(200, "") EXCEPT
                        !.journals = DescByDate(RowById(updated, id))],
                  "journal_entries", updated)
         /\ UNCHANGED autoinc

\* DELETE /journals/:id
JournalDelete(user, id) ==
    LET q == Req("DELETE", "/journals/:id", user, id) IN
    IF JournalRefusal(user, id).status # 0
    THEN Refuse(q, JournalRefusal(user, id))
    ELSE /\ Store(q, Res(200, "Journal entry deleted successfully"),
                  "journal_entries",
                  {e \in db.journal_entries :
                     ~(e.id = id /\ e.user_email = user.email)})
         /\ UNCHANGED autoinc

JournalIds == 0 .. (InitAutoinc.journal_entries + MaxJournalInserts)

JournalBodies ==
    {JournalBody(1, "", "c1"), JournalBody(2, "calm", "c2"),
     JournalBody(0, "", "c1")}

NextJournals ==
    \/ \E u \in Callers : JournalGetAll(u)
    \/ \E u \in Callers, id \in JournalIds : JournalGetById(u, id)
    \/ \E u \in {NoToken, TokenA, TokenB}, b \in JournalBodies :
          JournalPost(u, b)
    \/ \E u \in Callers, id \in JournalIds, b \in JournalBodies :
          JournalPut(u, id, b)
    \/ \E u \in Callers, id \in JournalIds : JournalDelete(u, id)

SpecJournals == Init /\ [][NextJournals]_vars

(***************************************************************************)
(* The browser client (api.js) against the settings routes.  A JSON object *)
(* is the set of its [key, value] entries.  Date.now() is the clock in     *)
(* minutes past a positive epoch, so a stored timestamp is always truthy,  *)
(* as a cached object is.  One step runs one client call from start to     *)
(* finish, the backend's handling of its request included.  The settings   *)
(* saved are strings; the number, boolean and json branches of the         *)
(* settings router are not exercised.                                      *)
(***************************************************************************)
\* CACHE_DURATION = 5 * 60 * 1000 ms
CACHE_DURATION == 5

\* The characters of the texts the client builds cache keys from.
Chars(text) ==
    CASE text = "GET" -> <<"G", "E", "T">>
      [] text = "PUT" -> <<"P", "U", "T">>
      [] text = "POST" -> <<"P", "O", "S", "T">>
      [] text = "DELETE" -> <<"D", "E", "L", "E", "T", "E">>
      [] text = "/settings" -> <<"/", "s", "e", "t", "t", "i", "n", "g", "s">>
      [] text = "yatraSettings" ->
           <<"y", "a", "t", "r", "a", "S", "e", "t", "t", "i", "n", "g", "s">>

\* `${options.method || 'GET'}_${endpoint}`
cacheKey(method, endpoint) == Chars(method) \o <<"_">> \o Chars(endpoint)

\* String.prototype.includes
Includes(hay, needle) ==
    \E i \in 1..(Len(hay) - Len(needle) + 1) :
        SubSeq(hay, i, i + Len(needle) - 1) = needle

\* formatSettings, for settings of type string.
formatSettings(rows) ==
    {[key |-> r.setting_key, value |-> r.setting_value] : r \in rows}

\* PUT /settings: INSERT ... ON DUPLICATE KEY UPDATE for every entry of the body.
SettingsSaved(rows, body) ==
    {r \in rows : \A e \in body : e.key # r.setting_key}
      \cup {[setting_key |-> e.key, setting_value |-> e.value,
             setting_type |-> "string"] : e \in body}

\* What the backend answers to a request of the client and the settings
\* table it leaves: GET /settings and PUT /settings behind authenticateToken
\* and requireAdmin; no other method is routed on /settings.
Backend(method, token, body) ==
    LET refused(status) ==
            [status |-> status, data |-> {}, settings |-> db.settings] IN
    IF method \notin {"GET", "PUT"} THEN refused(404)
    ELSE IF ~authenticateToken(token) THEN refused(401)
    ELSE IF ~requireAdmin(token) THEN refused(403)
    ELSE IF method = "GET"
    THEN [status |-> 200, data |-> formatSettings(db.settings),
          settings |-> db.settings]
    ELSE [status |-> 200,
          data |-> {[key |-> "message", value |-> "Settings updated successfully"]},
          settings |-> SettingsSaved(db.settings, body)]

\* The age test dropped.
Fresh_Always(entry) == TRUE

\* (Date.now() - cachedTime) < CACHE_DURATION
Fresh(entry) == now - entry.time < CACHE_DURATION

\* api.fetch(endpoint, {method, body}) with the token getAuthToken() finds;
\* up: the request reaches the backend and its answer comes back.  Gives
\* how the call ends (cached, ok, stale: the cached data returned from the
\* catch block, error: the exception thrown), the data returned, the cache
\* afterwards and the backend's answer.
apiFetch(method, token, body, up) ==
    LET key == cacheKey(method, "/settings")
        entries == {e \in client.cache : e.key = key}
        answer == Backend(method, token, body)
        end(outcome, data, cache, settings) ==
            [outcome |-> outcome, data |-> data, cache |-> cache,
             settings |-> settings, status |-> answer.status] IN
    IF method = "GET" /\ \E e \in entries : Fresh(e)
    THEN end("cached", (CHOOSE e \in entries : TRUE).data, client.cache,
             db.settings)
    ELSE IF up /\ answer.status \in 200..299
    THEN end("ok", answer.data,
             IF method = "GET"
             THEN (client.cache \ entries)
                    \cup {[key |-> key, data |-> answer.data, time |-> now]}
             ELSE client.cache,
             answer.settings)
    ELSE IF entries # {}
    THEN end("stale", (CHOOSE e \in entries : TRUE).data, client.cache,
             db.settings)
    ELSE end("error", {}, client.cache, db.settings)

\* What a client call leaves of the backend: the request and its answer
\* when the request got there.
Contacted(f, method, token, up) ==
    /\ db' = [db EXCEPT !.settings = f.settings]
    /\ IF f.outcome = "cached" \/ ~up THEN UNCHANGED <<req, resp>>
       ELSE /\ req' = Req(method, "/settings", token, 0)
            /\ resp' = Res(f.status, "")
    /\ UNCHANGED <<autoinc, now, inflight>>

Called(op, method, f, data, value) ==
    [op |-> op, method |-> method, fetched |-> f.outcome # "cached",
     outcome |-> f.outcome, data |-> data, value |-> value,
     seq |-> 1 - client.call.seq]

\* api.fetch('/settings', {method, body})
ApiFetch(method, token, body, up) ==
    LET f == apiFetch(method, token, body, up) IN
    /\ client' = [client EXCEPT
                    !.cache = f.cache,
                    !.call = Called("api.fetch", method, f, f.data, body)]
    /\ Contacted(f, method, token, up)

\* safeGetFromStorage('yatraSettings'): api.getSettings(), the answer copied
\* to localStorage; localStorage or the default when the call throws.
SafeGetFromStorage(token, up) ==
    LET f == apiFetch("GET", token, {}, up)
        data == IF f.outcome # "error" THEN f.data
                ELSE IF client.storage = {} THEN {}
                ELSE CHOOSE d \in client.storage : TRUE IN
    /\ client' = [client EXCEPT
                    !.cache = f.cache,
                    !.storage = IF f.outcome # "error" THEN {f.data} ELSE @,
                    !.call = Called("safeGetFromStorage", "GET", f, data, {})]
    /\ Contacted(f, "GET", token, up)

\* api.clearCacheFor(endpoint)
clearCacheFor(cache, endpoint) ==
    {e \in cache : ~Includes(e.key, Chars(endpoint))}

\* safeSetToStorage('yatraSettings', value): api.updateSettings(value), then
\* api.clearCacheFor(key) unless the call threw, then localStorage.
SafeSetToStorage(value, token, up) ==
    LET f == apiFetch("PUT", token, value, up) IN
    /\ client' = [client EXCEPT
                    !.cache = IF f.outcome # "error"
                              THEN clearCacheFor(f.cache, "yatraSettings")
                              ELSE f.cache,
                    !.storage = {value},
                    !.call = Called("safeSetToStorage", "PUT", f, f.data, value)]
    /\ Contacted(f, "PUT", token, up)

\* Time passes in the browser.
Elapse ==
    /\ now < MaxClientTime
    /\ now' = now + 1
    /\ UNCHANGED <<db, autoinc, req, resp, client, inflight>>

SettingsBodies ==
    {{[key |-> "yatra_title", value |-> "A"]},
     {[key |-> "yatra_title", value |-> "B"]}}

NextClient ==
    \/ \E m \in {"GET", "PUT", "POST", "DELETE"}, t \in {TokenA, TokenAdmin},
          up \in BOOLEAN :
          ApiFetch(m, t, {[key |-> "yatra_title", value |-> "B"]}, up)
    \/ \E t \in {NoToken, TokenAdmin}, up \in BOOLEAN : SafeGetFromStorage(t, up)
    \/ \E b \in SettingsBodies, up \in BOOLEAN :
          SafeSetToStorage(b, TokenAdmin, up)
    \/ Elapse

SpecClient == Init /\ [][NextClient]_vars

(***************************************************************************)
(* Post sections: routes/sections.js over post_sections.  A body carries   *)
(* the name when "name" is among its given fields; description and         *)
(* display_order are kept as "given" only.                                 *)
(***************************************************************************)
MaxSectionInserts == 1

\* LOWER(), for the names of SectionNames and the default sections.
Lower(name) ==
    CASE name \in {"News", "NEWS"} -> "news"
      [] name = "Temples & Sacred Sites" -> "temples & sacred sites"
      [] name = "Spiritual Experiences" -> "spiritual experiences"
      [] name = "Food & Prasad" -> "food & prasad"
      [] name = "Travel Updates" -> "travel updates"
      [] OTHER -> name

\* SELECT id FROM post_sections WHERE LOWER(name) = LOWER(?) AND id != ?
NameConflict(name, exceptId) ==
    \E x \in db.post_sections : x.id # exceptId /\ Lower(x.name) = Lower(name)

SectionBody(given, name) == [given |-> given, name |-> name]

\* POST /sections
SectionPost(user, body) ==
    LET q == ReqArg("POST", "/sections", user, 0, body)
        name == IF "name" \in body.given THEN body.name ELSE "" IN
    /\ autoinc.post_sections
         <= InitAutoinc.post_sections + MaxSectionInserts - 1
    /\ IF ~authenticateToken(user) THEN Refuse(q, Unauthorized)
       ELSE IF ~requireAdmin(user) THEN Refuse(q, AdminRequired)
       ELSE IF name = "" \/ Trim(name) = ""
       THEN Refuse(q, Res(400, "Section name is required"))
       ELSE IF NameConflict(Trim(name), 0)
       THEN Refuse(q, Res(400, "Section with this name already exists"))
       ELSE /\ Store(q, [Res(201, "Section created successfully")
                           EXCEPT !.id = autoinc.post_sections],
                     "post_sections",
                     db.post_sections \cup
                       {[id |-> autoinc.post_sections, name |-> Trim(name)]})
            /\ autoinc' = [autoinc EXCEPT !.post_sections = @ + 1]

\* PUT /sections/:id
SectionPut(user, id, body) ==
    LET q == ReqArg("PUT", "/sections/:id", user, id, body) IN
    IF ~authenticateToken(user) THEN Refuse(q, Unauthorized)
    ELSE IF ~requireAdmin(user) THEN Refuse(q, AdminRequired)
    ELSE IF RowById(db.post_sections, id) = {}
    THEN Refuse(q, Res(404, "Section not found"))
    ELSE IF /\ "name" \in body.given /\ body.name # "" /\ Trim(body.name) # ""
            /\ NameConflict(Trim(body.name), id)
    THEN Refuse(q, Res(400, "Section with this name already exists"))
    ELSE IF body.given = {}
    THEN Refuse(q, Res(400, "No fields to update"))
    ELSE /\ Store(q, Res(200, "Section updated successfully"), "post_sections",
                  {IF x.id = id /\ "name" \in body.given
                   THEN [x EXCEPT !.name = Trim(body.name)] ELSE x :
                     x \in db.post_sections})
         /\ UNCHANGED autoinc

\* Names: new, the same in capitals, a default section's in small letters,
\* blank, empty.
SectionNames == {"News", "NEWS", "travel updates", " ", ""}

SectionBodies ==
    {SectionBody({}, ""), SectionBody({"description"}, "")}
      \cup {SectionBody({"name"}, n) : n \in SectionNames}

\* Two default sections, the sections created, and an id no section has.
SectionIds == 3 .. (InitAutoinc.post_sections + MaxSectionInserts)

NextSections ==
    \/ \E u \in {NoToken, TokenA, TokenAdmin}, b \in SectionBodies :
         SectionPost(u, b)
    \/ \E u \in {NoToken, TokenA, TokenAdmin}, id \in SectionIds,
          b \in SectionBodies : SectionPut(u, id, b)

SpecSections == Init /\ [][NextSections]_vars

(***************************************************************************)
(* The whole backend.                                                      *)
(***************************************************************************)
Next ==
    \/ NextVehicles \/ NextTravelers \/ NextPosts \/ NextCheckIns
    \/ NextAnnouncements \/ NextAnnouncementsOld
    \/ NextAllotments \/ NextJournals \/ NextClient
    \/ NextCheckInsConcurrent \/ NextCheckInsByVehicle \/ NextMyStatus
    \/ NextCheckInsClear \/ NextAnnouncementsPolled
    \/ NextAllotmentsBulk \/ NextAllotmentsConcurrent
    \/ NextTravelerVehicles \/ NextSections

Spec == Init /\ [][Next]_vars

(***************************************************************************)
(* Properties.                                                             *)
(***************************************************************************)
IsWrite(q) == q.method \in {"POST", "PUT", "PATCH", "DELETE"}

IsLogin(q) == q.route \in {"/travelers/login", "/admin/login"}

Authenticated(q) == q.user.auth

NonAdmin(q) == q.user.auth /\ ~q.user.isAdmin

Is(q, method, route) == q.method = method /\ q.route = route

\* C1: every write route other than the login endpoints refuses a request
\* that carries no valid JWT and leaves every table unchanged.
C1_WritesRequireAuthentication ==
    [][(IsWrite(req') /\ ~IsLogin(req') /\ ~Authenticated(req'))
         => (resp'.status \in {401, 403} /\ db' = db)]_vars

\* The routes the audit lists as admin only, among those modelled.
AdminOnly(q) ==
    \/ q.route \in {"/vehicles", "/vehicles/:id"} /\ IsWrite(q)
    \/ Is(q, "POST", "/travelers")
    \/ Is(q, "DELETE", "/travelers/:id")
    \/ Is(q, "PATCH", "/posts/:id/approve")
    \/ Is(q, "DELETE", "/check-ins/vehicle/:vehicleId")

\* C2: an authenticated caller whose token is not admin is refused with 403
\* by every admin-only operation, and the stored data stay unchanged.
C2_AdminOnlyOperations ==
    [][(NonAdmin(req') /\ AdminOnly(req'))
         => (resp'.status = 403 /\ db' = db)]_vars

IsTravelerRoute(q) ==
    q.route \in {"/travelers", "/travelers/public", "/travelers/:id",
                 "/travelers/email/:email"}

\* The profile belongs to the caller: its id or its email is the token's.
OwnedBy(q, id, email) == id = q.user.id \/ email = q.user.email

\* C3: for an authenticated non-admin caller every traveler route returns
\* and changes profile data of the caller's own traveler only.
C3_OnlyOwnProfile ==
    [][(NonAdmin(req') /\ IsTravelerRoute(req'))
         => /\ \A v \in resp'.travelers : OwnedBy(req', v.id, v.email)
            /\ \A t \in db.travelers :
                 t \notin db'.travelers => OwnedBy(req', t.id, t.email)
            /\ \A t \in db'.travelers :
                 t \notin db.travelers => OwnedBy(req', t.id, t.email)]_vars

\* C4: no request of a non-admin caller makes a post approved: a post such
\* a caller creates is stored unapproved, and no post turns approved.
C4_OnlyAdminApproves ==
    [][~req'.user.isAdmin
         => \A n \in db'.posts :
              n.approved => \E p \in db.posts : p.id = n.id /\ p.approved]_vars

\* The ids of the posts a response carries.
Listed(r) == {r.posts[i].id : i \in 1 .. Len(r.posts)}

C6_AuthorSeesOwnUnapproved ==
    /\ (Is(req, "GET", "/posts") /\ NonAdmin(req) /\ req.arg = NoPostQuery)
         => \A p \in db.posts :
              p.author_email = req.user.email => p.id \in Listed(resp)
    /\ (Is(req, "GET", "/posts/:id") /\ NonAdmin(req))
         => \A p \in db.posts :
              (p.id = req.id /\ p.author_email = req.user.email)
                => (resp.status = 200 /\ Listed(resp) = {p.id})

\* What PUT or DELETE /posts/:id must answer for the post id it names: 404
\* and no change when no post has the id; 403 and no change to posts, media
\* and tags when the caller is neither admin nor the author; for an admin no
\* refusal, and after an admin's DELETE the post, its media and tags gone.
PostOwnershipRule ==
    LET target == {p \in db.posts : p.id = req'.id} IN
    /\ target = {} => (resp'.status = 404 /\ db' = db)
    /\ (\E p \in target :
          ~req'.user.isAdmin /\ p.author_email # req'.user.email)
         => (resp'.status = 403 /\ db' = db)
    /\ (target # {} /\ req'.user.isAdmin)
         => /\ resp'.status \notin {403, 404}
            /\ req'.method = "DELETE"
                 => /\ resp'.status = 200
                    /\ \A p \in db'.posts : p.id # req'.id
                    /\ \A m \in db'.post_media : m.post_id # req'.id
                    /\ \A t \in db'.post_tags : t.post_id # req'.id

IsPostWrite(q) ==
    q.route = "/posts/:id" /\ q.method \in {"PUT", "DELETE"} /\ Authenticated(q)

\* C7 as stated: PUT and DELETE /posts/:id answer 404 for every id no post
\* has, 403 to a non-admin caller who is not the author, leaving the post,
\* its media and tags unchanged, and let an admin update or delete any post.
C7_AnyUnknownIdAnswers404 ==
    [][IsPostWrite(req') => PostOwnershipRule]_vars

\* C7: PUT and DELETE /posts/:id with a positive id answer 404 when no post
\* has the id, 403 to a non-admin caller who is not the author, in both
\* cases leaving posts, media and tags unchanged, and never refuse an admin,
\* whose DELETE removes the post with its media and tags; an id that is not
\* a positive number is answered 400 and changes nothing.
C7_PostOwnership ==
    [][IsPostWrite(req')
         => IF req'.id > 0 THEN PostOwnershipRule
            ELSE resp'.status = 400 /\ db' = db]_vars

\* A non-admin caller was refused the update of a post someone else wrote.
C7_Witness ==
    /\ Is(req, "PUT", "/posts/:id") /\ NonAdmin(req) /\ resp.status = 403
    /\ \E p \in db.posts : p.id = req.id /\ p.author_email # req.user.email

\* C8: a post POST /posts stores for a non-admin caller carries the token's
\* email as author_email, whatever the body says about the author.
C8_AuthorIsTokenEmail ==
    (Is(req, "POST", "/posts") /\ NonAdmin(req) /\ resp.status = 201)
      => \A p \in db.posts : p.id = resp.id => p.author_email = req.user.email

\* A non-admin caller names another traveler's email in POST /check-ins.
IsCrossCheckIn(q) ==
    /\ Is(q, "POST", "/check-ins") /\ NonAdmin(q)
    /\ q.arg.travelerEmail \notin {"", q.user.email}

\* The checkout clauses: a non-admin caller's checkout of a row of another
\* traveler is answered 403 and changes nothing; a checkout answered 200
\* leaves the row inactive with checked_out_at set.
CheckoutRule ==
    /\ (Is(req', "POST", "/check-ins/:id/checkout") /\ NonAdmin(req')
          /\ \E c \in db.check_ins :
               c.id = req'.id /\ c.traveler_email # req'.user.email)
         => (resp'.status = 403 /\ db' = db)
    /\ (Is(req', "POST", "/check-ins/:id/checkout") /\ resp'.status = 200)
         => /\ \E c \in db.check_ins : c.id = req'.id
            /\ \A c \in db'.check_ins :
                 c.id = req'.id => (~c.active /\ c.checked_out_at)

\* C9 as stated: every POST /check-ins of a non-admin caller that names
\* another traveler's email is answered 403 and leaves check_ins unchanged,
\* and so is the checkout of another traveler's check-in; a successful
\* checkout leaves the row inactive with checked_out_at set.
C9_CrossCheckInAlways403 ==
    [][/\ IsCrossCheckIn(req') => (resp'.status = 403 /\ db' = db)
       /\ CheckoutRule]_vars

\* C9: a POST /check-ins of a non-admin caller that names another
\* traveler's email never changes check_ins; it is answered 403 when the
\* body carries a positive vehicleId and 400 when the vehicleId is missing
\* or not positive; the checkout of another traveler's check-in is answered
\* 403 and changes nothing; a successful checkout leaves the row inactive
\* with checked_out_at set.
C9_CheckInOwnership ==
    [][/\ IsCrossCheckIn(req')
            => /\ db' = db
               /\ resp'.status = IF req'.arg.vehicleId > 0 THEN 403 ELSE 400
       /\ CheckoutRule]_vars

\* A non-admin caller was refused a check-in for another traveler on an
\* existing vehicle.
C9_Witness ==
    /\ IsCrossCheckIn(req) /\ resp.status = 403
    /\ \E v \in db.vehicles : v.id = req.arg.vehicleId

\* The check-in row POST /check-ins adds for a body.
IsNewCheckIn(c, q, before) ==
    /\ c.vehicle_id = q.arg.vehicleId
    /\ c.traveler_email = q.arg.travelerEmail
    /\ c.active
    /\ \A o \in before : o.id < c.id

\* C10: POST /check-ins that passes validation and the self check-in rule
\* is answered 400 'Already checked in' and adds no row while an active row
\* of the (vehicleId, travelerEmail) pair exists; with no active row, and
\* the vehicle and traveler id known, it is answered 201 and adds exactly
\* one active row for the pair, also after an earlier checkout.
C10_OneActiveCheckInPerPair ==
    [][(Is(req', "POST", "/check-ins") /\ Authenticated(req')
          /\ req'.arg.vehicleId > 0 /\ req'.arg.travelerEmail # ""
          /\ (req'.user.isAdmin \/ req'.user.email = req'.arg.travelerEmail))
         => LET active == {c \in db.check_ins :
                             /\ c.vehicle_id = req'.arg.vehicleId
                             /\ c.traveler_email = req'.arg.travelerEmail
                             /\ c.active}
            IN
            /\ active # {}
                 => /\ resp'.status = 400
                    /\ resp'.msg = "Already checked in"
                    /\ db' = db
            /\ (/\ active = {}
                /\ \E v \in db.vehicles : v.id = req'.arg.vehicleId
                /\ \/ req'.arg.travelerId = 0
                   \/ \E t \in db.travelers : t.id = req'.arg.travelerId)
                 => /\ resp'.status = 201
                    /\ \E c \in db'.check_ins :
                         /\ IsNewCheckIn(c, req', db.check_ins)
                         /\ db'.check_ins = db.check_ins \cup {c}]_vars

\* A pair checked in again after its checkout: the old row is inactive and
\* a newer active row stands beside it.
C10_Witness ==
    /\ Is(req, "POST", "/check-ins") /\ resp.status = 201
    /\ \E old, new \in db.check_ins :
         /\ old.vehicle_id = new.vehicle_id
         /\ old.traveler_email = new.traveler_email
         /\ old.id < new.id /\ new.id = resp.id
         /\ ~old.active /\ old.checked_out_at /\ new.active

\* C11: an instant announcement that has not been marked sent (sent_at is
\* NULL) and not been deleted is in every answer of GET
\* /announcements/pending, and in every answer of GET
\* /announcements/user/:email for a user it targets: any user when it is for
\* all travelers, the user whose email is the stored recipient.
C11_InstantDeliveredOnEveryPoll ==
    LET live == {a \in db.announcements :
                   a.timing_type = "instant" /\ ~a.sent_at}
    IN
    /\ (Is(req, "GET", "/announcements/pending") /\ resp.status = 200)
         => live \subseteq resp.announcements
    /\ (Is(req, "GET", "/announcements/user/:email") /\ resp.status = 200)
         => \A a \in live :
              (\/ a.recipient_type = "all-travelers"
               \/ /\ a.recipient_type = "specific-traveler"
                  /\ a.recipient_value = Text(req.arg.email))
                => a \in resp.announcements

\* An announcement for all group leaders: stored as 'specific-traveler' with
\* the ALL_GROUP_LEADERS marker, bare or inside the JSON text.
IsForAllGroupLeaders(a) ==
    /\ a.recipient_type = "specific-traveler"
    /\ a.recipient_value = Text("ALL_GROUP_LEADERS") \/ a.recipient_value.k = "json"

\* The users an announcement targets.
Targets(a, email) ==
    IF a.recipient_type = "all-travelers" THEN TRUE
    ELSE IF a.recipient_type = "specific-vehicle"
    THEN \E t \in db.travelers :
           /\ t.email = email /\ t.vehicle_id # 0
           /\ a.recipient_value.k = "text"
           /\ ParseIntText(a.recipient_value.s) = t.vehicle_id
    ELSE IF IsForAllGroupLeaders(a)
    THEN \E v \in db.vehicles : v.group_leader_email = email
    ELSE a.recipient_value = Text(email)

\* C12: GET /announcements/user/:email returns exactly the pending
\* announcements that target the user: all of them when for all travelers,
\* the user's own when for a specific traveler or group leader, those of
\* the user's vehicle, and those for all group leaders when the user leads
\* a vehicle.
C12_TargetingExact ==
    [][(Is(req', "GET", "/announcements/user/:email") /\ now' = now
          /\ resp'.status = 200)
         => resp'.announcements =
              {a \in db.announcements :
                 IsPending(a) /\ Targets(a, req'.arg.email)}]_vars

\* The live location fields of the vehicles.
Locations(rows) ==
    {<<v.id, v.current_lat, v.current_lng, v.last_update>> : v \in rows}

\* A vehicle row without its live location fields.
Unlocated(v) ==
    [v EXCEPT !.current_lat = 0, !.current_lng = 0, !.last_update = FALSE]

\* C13: POST /vehicles/:id/location by an authenticated caller is answered
\* 404 when no vehicle has the id and 403 when the caller is neither admin
\* nor the vehicle's group leader, and then no vehicle's current_lat,
\* current_lng or last_update changes; when it succeeds nothing but those
\* three fields of that one vehicle changes.
C13_LocationByLeaderOrAdmin ==
    [][(Is(req', "POST", "/vehicles/:id/location") /\ Authenticated(req'))
         => LET target == {v \in db.vehicles : v.id = req'.id} IN
            /\ target = {}
                 => /\ resp'.status = 404
                    /\ Locations(db'.vehicles) = Locations(db.vehicles)
            /\ (\E v \in target :
                  ~req'.user.isAdmin /\ v.group_leader_email # req'.user.email)
                 => /\ resp'.status = 403
                    /\ Locations(db'.vehicles) = Locations(db.vehicles)
            /\ resp'.status = 200
                 => /\ {v \in db'.vehicles : v.id # req'.id}
                         = {v \in db.vehicles : v.id # req'.id}
                    /\ {Unlocated(v) : v \in db'.vehicles}
                         = {Unlocated(v) : v \in db.vehicles}
                    /\ [db' EXCEPT !.vehicles = {}] = [db EXCEPT !.vehicles = {}]]_vars

\* The allotment rows stored for a day and a traveler.
AllotmentsOf(rows, date, travelerId) ==
    {r \in rows : r.date = date /\ r.traveler_id = travelerId}

C15_JournalsPrivate ==
    [][/\ (Is(req', "GET", "/journals") /\ resp'.status = 200)
            => \A i \in 1..Len(resp'.journals) :
                 /\ resp'.journals[i].userEmail = req'.user.email
                 /\ \E e \in db.journal_entries :
                      e.id = resp'.journals[i].id /\ e.user_email = req'.user.email
       /\ (/\ req'.route = "/journals/:id"
           /\ req'.method \in {"GET", "PUT", "DELETE"}
           /\ Authenticated(req')
           /\ \E e \in db.journal_entries :
                e.id = req'.id /\ e.user_email # req'.user.email)
            => /\ resp'.status = 404
               /\ resp'.journals = <<>>
               /\ db'.journal_entries = db.journal_entries]_vars

\* An admin's PUT on a traveler's entry was answered 404 while another
\* traveler holds an entry too.
C15_Witness ==
    /\ Is(req, "PUT", "/journals/:id") /\ req.user = TokenAdmin
    /\ resp.status = 404
    /\ \E e \in db.journal_entries : e.id = req.id /\ e.user_email = UserA
    /\ \E e \in db.journal_entries : e.user_email = UserB

\* Every hash the travelers table holds or has held.
PasswordHashes ==
    {BcryptHash(p) : p \in {"pwA", "pwB", "pwC"}}

\* C16: no response of a traveler route (the lists, the lookups by id and
\* by email, the login and the create, update and delete acknowledgements)
\* carries a password_hash field or the value of a stored password hash.
C16_NoPasswordHashInResponses ==
    (req.route \in {"/travelers", "/travelers/public", "/travelers/:id",
                    "/travelers/email/:email", "/travelers/login"})
      => /\ resp.msg \notin PasswordHashes
         /\ \A r \in resp.travelers :
              /\ "password_hash" \notin DOMAIN r
              /\ \A f \in DOMAIN r \ {"id", "vehicleId", "vehicle_id"} :
                   r[f] \notin PasswordHashes

\* A login has answered with the profile of a traveler who has a password.
C16_Witness ==
    /\ Is(req, "POST", "/travelers/login") /\ resp.status = 200
    /\ \E r \in resp.travelers, t \in db.travelers :
         r.id = t.id /\ t.password_hash \in PasswordHashes

\* The client has just made a call of the kind op.
JustCalled(op) ==
    client'.call.seq # client.call.seq /\ client'.call.op = op

\* The cache entries under the key of a method on /settings.
CachedFor(cache, method) ==
    {e \in cache : e.key = cacheKey(method, "/settings")}

\* C17: api.fetch answers a GET without a request to the backend only from
\* a cache entry of the same key younger than CACHE_DURATION; a GET that
\* finds no such entry sends the request and, when it succeeds, stores the
\* answer with the present time; a POST, PUT or DELETE always sends the
\* request, is never answered from the cache and leaves the cache alone.
C17_TtlCacheForGetOnly ==
    [][JustCalled("api.fetch")
         => LET c == client'.call
                young == {e \in CachedFor(client.cache, "GET") :
                            now - e.time < 5} IN
            /\ (c.method = "GET" /\ ~c.fetched)
                 => /\ \E e \in young : c.data = e.data
                    /\ UNCHANGED <<db, req, resp>>
                    /\ client'.cache = client.cache
            /\ (c.method = "GET" /\ young = {})
                 => /\ c.fetched
                    /\ c.outcome = "ok"
                         => CachedFor(client'.cache, "GET")
                              = {[key |-> cacheKey("GET", "/settings"),
                                  data |-> c.data, time |-> now]}
            /\ c.method # "GET"
                 => /\ c.fetched
                    /\ c.outcome \in {"ok", "error"}
                    /\ client'.cache = client.cache
                    /\ CachedFor(client'.cache, c.method) = {}]_vars

\* A GET has just been sent to the backend because the cached answer had
\* turned CACHE_DURATION old, and its answer has replaced the cached one.
C17_Witness ==
    /\ client.call.op = "api.fetch" /\ client.call.method = "GET"
    /\ client.call.outcome = "ok"
    /\ now = 5
    /\ \E e \in client.cache : e.time = now /\ e.data = client.call.data
    /\ client.storage # {}

\* C18: once safeSetToStorage('yatraSettings', value) has saved through PUT
\* /settings, the cache holds no answer to GET /settings, and a
\* safeGetFromStorage('yatraSettings') that comes next sends its request to
\* the backend and returns settings that hold the saved value.
C18_SaveClearsCache ==
    [][/\ (JustCalled("safeSetToStorage") /\ client'.call.outcome = "ok")
            => CachedFor(client'.cache, "GET") = {}
       /\ (/\ client.call.op = "safeSetToStorage" /\ client.call.outcome = "ok"
           /\ JustCalled("safeGetFromStorage") /\ resp'.status = 200)
            => /\ client'.call.fetched
               /\ client.call.value \subseteq client'.call.data]_vars

\* C19: no two active check_ins rows are for the same vehicle and traveler
\* email, however the POST /check-ins requests of several connections are
\* interleaved.
C19_NeverTwoActiveCheckIns ==
    \A c1, c2 \in db.check_ins :
        (/\ c1.active /\ c2.active
         /\ c1.vehicle_id = c2.vehicle_id
         /\ c1.traveler_email = c2.traveler_email)
          => c1.id = c2.id

\* C20: GET /check-ins/vehicle/:vehicleId without the active parameter
\* lists every traveler assigned to the vehicle, reports a traveler as
\* checkedIn exactly when an active check_ins row of the vehicle is theirs,
\* and its checkedIn array holds exactly the emails so reported.
C20_CheckedInIffActiveRow ==
    (/\ Is(req, "GET", "/check-ins/vehicle/:vehicleId")
     /\ resp.status = 200 /\ req.arg.active = "")
      => LET active(email) ==
                 \E c \in db.check_ins :
                     /\ c.vehicle_id = req.id
                     /\ c.traveler_email = email
                     /\ c.active IN
         /\ \A t \in db.travelers :
              t.vehicle_id = req.id
                => \E e \in resp.travelers : e.email = t.email
         /\ \A e \in resp.travelers : e.checkedIn <=> active(e.email)
         /\ resp.checkIns = {e.email : e \in {e \in resp.travelers :
                                                active(e.email)}}

\* C21: GET /check-ins/my-status answers with the vehicle allotted to the
\* caller for the requested day (today when no date is given) when there is
\* one and the traveler's base vehicle_id otherwise; isCheckedIn is true
\* exactly when an active check-in of that vehicle is the caller's; with no
\* vehicle either way vehicleId is null and active and isCheckedIn are false.
C21_MyStatusResolvesVehicle ==
    [][(Is(req', "GET", "/check-ins/my-status") /\ Authenticated(req')
          /\ now' = now)
         => LET day == IF req'.arg.date = ""
                       THEN (IF now = 0 THEN "2025-01-01" ELSE "2025-01-02")
                       ELSE normalizeDate(req'.arg.date)
                me == {t \in db.travelers : t.email = req'.user.email}
                allotted == {r.vehicle_id : r \in
                               {r \in db.vehicle_allotments :
                                  /\ r.date = day
                                  /\ \E t \in me : t.id = r.traveler_id}}
                vehicle == IF allotted # {} THEN allotted
                           ELSE {t.vehicle_id : t \in me} \ {0}
                checkedIn == \E c \in db.check_ins :
                                /\ c.vehicle_id \in vehicle
                                /\ c.traveler_email = req'.user.email
                                /\ c.active IN
            /\ resp'.status = 200
            /\ vehicle = {} => resp'.id = 0 /\ resp'.flags = {}
            /\ vehicle # {} => resp'.id \in vehicle
            /\ "isCheckedIn" \in resp'.flags <=> checkedIn
            /\ resp'.checkIns = IF checkedIn THEN {req'.user.email} ELSE {}]_vars

\* A traveler with no base vehicle, allotted to vehicle 1 for the day and
\* checked in to it, has asked for the status, while the other traveler's
\* allotment for the day differs from that traveler's base vehicle.
C21_Witness ==
    /\ Is(req, "GET", "/check-ins/my-status") /\ req.user = TokenB
    /\ resp.id = 1 /\ "isCheckedIn" \in resp.flags
    /\ \E t \in db.travelers : t.id = 2 /\ t.vehicle_id = 0
    /\ \E r \in db.vehicle_allotments, t \in db.travelers :
         r.traveler_id = t.id /\ t.vehicle_id \notin {0, r.vehicle_id}

\* C22: clearing a vehicle's check-ins as an admin leaves no active check-in
\* of that vehicle, deletes no check-in row and leaves the rows of every
\* other vehicle as they were; no check-in route turns an inactive row back
\* to active.
C22_ClearVehicleCheckIns ==
    [][/\ (/\ Is(req', "DELETE", "/check-ins/vehicle/:vehicleId")
           /\ req'.user.auth /\ req'.user.isAdmin)
          => /\ ~\E c \in db'.check_ins : c.vehicle_id = req'.id /\ c.active
             /\ {c.id : c \in db'.check_ins} = {c.id : c \in db.check_ins}
             /\ {c \in db'.check_ins : c.vehicle_id # req'.id}
                  = {c \in db.check_ins : c.vehicle_id # req'.id}
       /\ req'.route \in {"/check-ins", "/check-ins/:id/checkout",
                          "/check-ins/vehicle/:vehicleId"}
          => \A c \in db.check_ins :
               ~c.active => \E d \in db'.check_ins : d.id = c.id /\ ~d.active
      ]_vars

\* An admin has cleared vehicle 1, whose check-in is now inactive, while a
\* check-in of vehicle 2 is still active.
C22_Witness ==
    /\ Is(req, "DELETE", "/check-ins/vehicle/:vehicleId")
    /\ req.user = TokenAdmin /\ req.id = 1 /\ resp.status = 200
    /\ \E c \in db.check_ins : c.vehicle_id = 1 /\ ~c.active
    /\ \E c \in db.check_ins : c.vehicle_id = 2 /\ c.active

\* C23: an announcement marked sent is never returned again by
\* GET /announcements/pending or GET /announcements/user/:email; no step
\* resets sent to false, and marking one announcement sent leaves every
\* other announcement as it was.
C23_SentStaysSent ==
    [][/\ \A a \in db.announcements, b \in db'.announcements :
            (a.sent /\ b.id = a.id) => b.sent
       /\ (req'.route \in {"/announcements/pending", "/announcements/user/:email"}
             /\ resp'.status = 200)
            => \A r \in resp'.announcements :
                 ~\E a \in db.announcements : a.id = r.id /\ a.sent
       /\ Is(req', "PUT", "/announcements/:id/sent")
            => {a \in db'.announcements : a.id # req'.id}
                 = {a \in db.announcements : a.id # req'.id}
      ]_vars

\* A poll has answered with an unsent announcement while another
\* announcement, marked sent, was left out.
C23_Witness ==
    /\ Is(req, "GET", "/announcements/pending")
    /\ \E a \in db.announcements :
         a.sent /\ a.sent_at /\ a.timing_type = "instant"
                /\ a \notin resp.announcements
    /\ \E a \in db.announcements : ~a.sent /\ a \in resp.announcements

\* C24: a poll (GET /announcements/pending, or GET /announcements/user/:email
\* by a user the announcement is meant for) never returns a scheduled
\* announcement before its scheduled_time, and returns it at or after that
\* time for as long as it is unsent and not deleted.
C24_ScheduledAtItsTime ==
    [][(/\ req'.route \in {"/announcements/pending", "/announcements/user/:email"}
        /\ resp'.status = 200 /\ now' = now)
         => \A a \in db.announcements :
              (a.timing_type = "scheduled" /\ a.scheduled_time # 0)
                => /\ now < a.scheduled_time => a \notin resp'.announcements
                   /\ (/\ now >= a.scheduled_time /\ ~a.sent
                       /\ \/ req'.route = "/announcements/pending"
                          \/ shouldReceive(a, req'.arg.email))
                        => a \in resp'.announcements
      ]_vars

\* At time 1 a poll has returned the announcement scheduled for 1 and left
\* out the one scheduled for 2.
C24_Witness ==
    /\ req.route \in {"/announcements/pending", "/announcements/user/:email"}
    /\ now = 1
    /\ \E a \in db.announcements :
         /\ a.timing_type = "scheduled" /\ a.scheduled_time = 1
         /\ a \in resp.announcements
    /\ \E a \in db.announcements :
         /\ a.timing_type = "scheduled" /\ a.scheduled_time = 2 /\ ~a.sent
         /\ a \notin resp.announcements

\* C25: every announcement POST /announcements has accepted is, as time
\* advances, eventually pending, unless it is marked sent or deleted first,
\* whatever its timingType and scheduledTime.
C25_AcceptedEventuallyPending ==
    \A id \in PolledIds :
      [](RowById(db.announcements, id) # {}
           => <>(\/ \E a \in RowById(db.announcements, id) : IsPending(a) \/ a.sent
                 \/ RowById(db.announcements, id) = {}))

\* The same for the announcements that are instant or carry a scheduled time.
C25_TimedEventuallyPending ==
    \A id \in PolledIds :
      []((\E b \in RowById(db.announcements, id) :
             b.timing_type = "instant" \/ b.scheduled_time # 0)
           => <>(\/ \E a \in RowById(db.announcements, id) : IsPending(a) \/ a.sent
                 \/ RowById(db.announcements, id) = {}))

\* The assignments of a bulk request as (date, traveler, vehicle), each on
\* its own date or else the request's.
Submitted(q) ==
    [i \in 1..Len(q.arg.assignments) |->
       <<normalizeDate(IF q.arg.assignments[i].date # ""
                       THEN q.arg.assignments[i].date ELSE q.arg.date),
         q.arg.assignments[i].travelerId, q.arg.assignments[i].vehicleId>>]

Stored(rows) == {<<r.date, r.traveler_id, r.vehicle_id>> : r \in rows}

InvalidAssignment(q) ==
    \E i \in 1..Len(q.arg.assignments) :
       Submitted(q)[i][1] = "" \/ Submitted(q)[i][2] = 0 \/ Submitted(q)[i][3] = 0

\* What a bulk save guarantees whatever the assignments: the days it does
\* not name, the rows it keeps without replaceExisting, its refusals.
BulkFrame ==
    LET q == req'
        sub == Submitted(q)
        idx == 1..Len(sub)
        dates == {sub[i][1] : i \in idx} IN
    /\ resp'.status = 201
         => /\ {r \in db'.vehicle_allotments : r.date \notin dates}
                 = {r \in db.vehicle_allotments : r.date \notin dates}
            /\ ~q.arg.replaceExisting
                 => \A r \in db.vehicle_allotments :
                      (~\E i \in idx : sub[i][2] = r.traveler_id)
                         => r \in db'.vehicle_allotments
    /\ q.arg.assignments = <<>>
         => resp'.status = 400 /\ UNCHANGED db
    /\ (q.arg.assignments # <<>> /\ InvalidAssignment(q))
         => resp'.status >= 400 /\ UNCHANGED db

C27_NoMixtureOfTwoBulkSaves ==
    \A p1, p2 \in inflight :
      (/\ p1.conn # p2.conn /\ p1.done /\ p2.done
       /\ \A p \in inflight : p.done)
        => \E p \in {p1, p2} :
             Stored({r \in db.vehicle_allotments : r.date = "2025-01-01"})
               = {<<p.rows[i].date, p.rows[i].traveler_id, p.rows[i].vehicle_id>> :
                    i \in 1..Len(p.rows)}

\* C28: capacity is a positive number: no POST /vehicles or PUT
\* /vehicles/:id of the authenticated router leaves a vehicle with a
\* capacity that is not greater than zero, and a request answered 400
\* stores nothing.
C28_CapacityStaysPositive ==
    [][(/\ req'.route \in {"/vehicles", "/vehicles/:id"}
        /\ req'.method \in {"POST", "PUT"} /\ ~req'.legacy
        /\ \A v \in db.vehicles : v.capacity > 0)
         => /\ \A v \in db'.vehicles : v.capacity > 0
            /\ resp'.status = 400 => db' = db
      ]_vars

\* C29: after any traveler create and update and vehicle create and delete
\* requests, every traveler's vehicle_id is null or the id of a vehicle that
\* exists.
C29_TravelerVehicleExists ==
    \A t \in db.travelers :
       t.vehicle_id = 0 \/ \E v \in db.vehicles : v.id = t.vehicle_id

\* C30: section names are unique ignoring case: no two post sections have
\* names equal case-insensitively, and a create or rename to a name another
\* section has, in any case, answers 400 'Section with this name already
\* exists' and leaves the sections unchanged.
C30_SectionNamesUnique ==
    /\ [](\A x, y \in db.post_sections :
            Lower(x.name) = Lower(y.name) => x.id = y.id)
    /\ [][(/\ req'.route \in {"/sections", "/sections/:id"}
           /\ req'.method \in {"POST", "PUT"}
           /\ req'.user = TokenAdmin /\ "name" \in req'.arg.given
           /\ (req'.method = "PUT" => RowById(db.post_sections, req'.id) # {})
           /\ \E x \in db.post_sections :
                /\ x.id # req'.id
                /\ Lower(x.name) = Lower(Trim(req'.arg.name)))
            => (resp'.status = 400 /\ UNCHANGED db)]_vars

====
